---- MODULE Spec2Model ----
(***************************************************************************)
(* Runner lifecycle controller of actionsspot2.                            *)
(*                                                                         *)
(* Two programs share the source tree and never run in one process:        *)
(*   "webhook": WebhookServer + RunnerManager (notification path); Flask   *)
(*              handler threads and the RunnerManager cleanup thread.      *)
(*   "poller":  main.py + JobPoller (polling path); one poll thread.       *)
(* Both talk to the same kinds of providers: the instance provider         *)
(* (AWSManager) and the job source (GitHubClient / GitHubAPIClient).       *)
(*                                                                         *)
(* Text is modelled as a sequence of tokens; the tokens "=" and "," are    *)
(* the separators the code splits on, every other token is a run of        *)
(* characters holding neither.                                             *)
(*                                                                         *)
(* Failure model of the providers: a call fails the way its adapter        *)
(* reports failure (GitHub adapters catch every exception and return       *)
(* None / [] / False, AWSManager catches ClientError and returns None /    *)
(* False / []).                                                            *)
(*                                                                         *)
(* The webhook secret: WebhookServer reads config.github_webhook_secret,   *)
(* which the Config class does not declare. cfg_secret.attr says whether   *)
(* the config object of the run carries the attribute.                     *)
(*                                                                         *)
(* A handler thread that holds its response sends it before any other      *)
(* thread moves: sending touches nothing the threads share.                *)
(*                                                                         *)
(* Specifications:                                                         *)
(*   Spec      the two programs, their threads and providers               *)
(*   SpecLive  Spec with fair threads, on runs of LiveDeliveries requests  *)
(*   SpecRetry Spec on runs of PollCycles poll cycles                      *)
(*   SpecMain  main() of main.py: startup, the polling program, shutdown   *)
(*   SpecMainLive  SpecMain with a fair poll thread                        *)
(*   SpecPoll  start_polling, stop_polling and the loop threads alone      *)
(*   SpecWait  _wait_for_spot_fulfillment alone, step by step              *)
(*   SpecSig   _verify_signature alone                                     *)
(*   SpecParse the label parsers and _cpu_to_instance_type alone           *)
(*   SpecLock  runners_lock alone: the step order of every routine that    *)
(*             takes it                                                    *)
(***************************************************************************)
EXTENDS Integers, Sequences, FiniteSets, TLC

\* ------------------------------------------------------------------ bounds
\* HTTP requests that start work over a run: notifications that start
\* provisioning or cleanup, and POST /cleanup requests
MaxDeliveries == 3
\* clock advances over a run
MaxTicks == 1
\* poll cycles over a run
MaxCycles == 1
\* raw request bodies whose signatures are verified
MaxSigBodies == 3
\* HTTP requests that start work over a run in which progress is checked
LiveDeliveries == 2
\* poll cycles over a run in which consecutive cycles are looked at
PollCycles == 2
\* the largest cpu count of the range _cpu_to_instance_type is called with
MaxCpuCount == 66
\* labels of a job whose labels are parsed
MaxLabels == 2
\* calls of start_polling and stop_polling over a run
MaxPollCalls == 5

\* the longest time a fulfilment wait is followed for, in seconds: MaxElapsed
\* stands for that much or more
MaxElapsed == 330

\* ------------------------------------------------------- program constants
\* Config.max_runners of the runs looked at (MAX_RUNNERS=1 in the environment)
max_runners == 1
\* _wait_for_spot_fulfillment: timeout and the sleep between two polls
WaitTimeout == 300
WaitSleep == 10
\* Config.runner_idle_timeout (seconds)
IdleTimeout == 300
\* timedelta(hours=1) of the orphan sweep (seconds)
OrphanThreshold == 3600

\* ------------------------------------------------------------- text tokens
Eq == "="
Comma == ","

\* positions of "=" in a text
EqPos(s) == {i \in 1..Len(s) : s[i] = Eq}

MinOf(S) == CHOOSE x \in S : \A y \in S : x <= y

\* '=' in item
HasEq(s) == EqPos(s) # {}

\* item.startswith(p)
StartsWith(s, p) == Len(s) >= Len(p) /\ SubSeq(s, 1, Len(p)) = p

\* p in s (substring)
Contains(s, p) == \E i \in 0..(Len(s) - Len(p)) : SubSeq(s, i + 1, i + Len(p)) = p

\* item.split('=', 1): key is the text before the first "=", value all the rest
SplitOnceKey(s) == SubSeq(s, 1, MinOf(EqPos(s)) - 1)
SplitOnceValue(s) == SubSeq(s, MinOf(EqPos(s)) + 1, Len(s))

\* item.split('=')[1]: the text between the first "=" and the second (or the end)
SplitAllSecond(s) ==
    LET first == MinOf(EqPos(s))
        later == {i \in EqPos(s) : i > first}
        stop  == IF later = {} THEN Len(s) + 1 ELSE MinOf(later)
    IN  SubSeq(s, first + 1, stop - 1)

\* value.split(','): the list of the texts between the commas
RECURSIVE SplitCommas(_)
SplitCommas(s) ==
    LET commas == {i \in 1..Len(s) : s[i] = Comma}
    IN  IF commas = {} THEN <<s>>
        ELSE <<SubSeq(s, 1, MinOf(commas) - 1)>>
             \o SplitCommas(SubSeq(s, MinOf(commas) + 1, Len(s)))

\* int(value): the tokens Python's int() accepts, with their values
IntTokens == {"1", "4", "5", "1000"}
IntOf(tok) ==
    CASE tok = "1" -> 1
      [] tok = "4" -> 4
      [] tok = "5" -> 5
      [] tok = "1000" -> 1000

\* int(value) raises ValueError unless the text is one integer token
IntRaises(v) == ~(Len(v) = 1 /\ v[1] \in IntTokens)

\* ------------------------------------------------------------ label parser
\* a label of a job: str is isinstance(label, str), text is str(label)
Label(isStr, text) == [str |-> isStr, text |-> text]

\* marks a key a configuration dict does not hold
Absent == <<"<absent>">>

DefaultInstanceType == <<"t3.medium">>
DefaultAmiId == <<"ami-0c02fb55956c7d316">>
DefaultRunnerLabels == << <<"self-hosted">>, <<"linux">>, <<"x64">> >>
DefaultMaxPrice == <<"0.10">>
DefaultWorkFolder == <<"/home/runner/_work">>

\* cpu_map, in the order sorted(cpu_map.items()) visits it
CpuMap == <<
    [cpu |-> 1,  type |-> <<"t3.micro">>],
    [cpu |-> 2,  type |-> <<"t3.medium">>],
    [cpu |-> 4,  type |-> <<"t3.xlarge">>],
    [cpu |-> 8,  type |-> <<"t3.2xlarge">>],
    [cpu |-> 16, type |-> <<"m5.4xlarge">>],
    [cpu |-> 32, type |-> <<"m5.8xlarge">>],
    [cpu |-> 64, type |-> <<"m5.16xlarge">>] >>

\* a loop that passes over a tier whose capacity equals the count
RECURSIVE CpuScanStrict(_, _)
CpuScanStrict(cpu_count, i) ==
    IF i > Len(CpuMap) THEN <<"m5.16xlarge">>
    ELSE IF CpuMap[i].cpu > cpu_count THEN CpuMap[i].type
    ELSE CpuScanStrict(cpu_count, i + 1)

\* the loop of _cpu_to_instance_type from entry i on
RECURSIVE CpuScan(_, _)
CpuScan(cpu_count, i) ==
    IF i > Len(CpuMap) THEN <<"m5.16xlarge">>
    ELSE IF CpuMap[i].cpu >= cpu_count THEN CpuMap[i].type
    ELSE CpuScan(cpu_count, i + 1)

\* a mapping that gives the largest class whatever the count
CpuToInstanceTypeLargest(cpu_count) == <<"m5.16xlarge">>

CpuToInstanceType(cpu_count) == CpuScan(cpu_count, 1)

\* the dict parse_runs_on_config starts from; raised marks an exception
RunsOnDefaults ==
    [instance_type |-> DefaultInstanceType, ami_id |-> DefaultAmiId,
     labels |-> DefaultRunnerLabels, max_price |-> DefaultMaxPrice,
     run_id |-> Absent, memory |-> Absent, work_folder |-> Absent,
     raised |-> FALSE]

\* one pass of the loop body of parse_runs_on_config over item
RunsOnItem(config, item) ==
    IF ~item.str THEN config
    ELSE IF StartsWith(item.text, <<"runs-on", Eq>>)
         THEN [config EXCEPT !.run_id = SplitAllSecond(item.text)]
    ELSE IF StartsWith(item.text, <<"instanceType", Eq>>)
         THEN [config EXCEPT !.instance_type = SplitAllSecond(item.text)]
    ELSE IF HasEq(item.text)
         THEN LET key == SplitOnceKey(item.text)
                  value == SplitOnceValue(item.text)
              IN  IF key = <<"family">> THEN [config EXCEPT !.instance_type = value]
                  ELSE IF key = <<"cpu">>
                       THEN IF IntRaises(value) THEN [config EXCEPT !.raised = TRUE]
                            ELSE [config EXCEPT
                                    !.instance_type = CpuToInstanceType(IntOf(value[1]))]
                  ELSE IF key = <<"memory">> \/ key = <<"ram">>
                       THEN [config EXCEPT !.memory = value]
                  ELSE IF key = <<"image">> THEN [config EXCEPT !.ami_id = value]
                  ELSE IF key = <<"maxPrice">> THEN [config EXCEPT !.max_price = value]
                  ELSE IF key = <<"labels">>
                       THEN [config EXCEPT !.labels = SplitCommas(value)]
                  ELSE config
    ELSE config

RECURSIVE RunsOnLoop(_, _, _)
RunsOnLoop(config, runs_on, i) ==
    IF i > Len(runs_on) \/ config.raised THEN config
    ELSE RunsOnLoop(RunsOnItem(config, runs_on[i]), runs_on, i + 1)

\* RunnerManager.parse_runs_on_config
ParseRunsOnConfig(runs_on) == RunsOnLoop(RunsOnDefaults, runs_on, 1)

\* the dict _parse_runner_config starts from
RunnerConfigDefaults ==
    [instance_type |-> DefaultInstanceType, ami_id |-> DefaultAmiId,
     labels |-> DefaultRunnerLabels, max_price |-> DefaultMaxPrice,
     run_id |-> Absent, memory |-> Absent, work_folder |-> DefaultWorkFolder,
     raised |-> FALSE]

\* one pass of the loop body of _parse_runner_config over label
RunnerConfigItem(config, label) ==
    IF ~(label.str /\ HasEq(label.text)) THEN config
    ELSE LET key == SplitOnceKey(label.text)
             value == SplitOnceValue(label.text)
         IN  IF key = <<"instanceType">> THEN [config EXCEPT !.instance_type = value]
             ELSE IF key = <<"cpu">>
                  THEN IF IntRaises(value) THEN [config EXCEPT !.raised = TRUE]
                       ELSE [config EXCEPT
                               !.instance_type = CpuToInstanceType(IntOf(value[1]))]
             ELSE IF key = <<"memory">> \/ key = <<"ram">>
                  THEN [config EXCEPT !.memory = value]
             ELSE IF key = <<"image">> THEN [config EXCEPT !.ami_id = value]
             ELSE IF key = <<"maxPrice">> THEN [config EXCEPT !.max_price = value]
             ELSE IF key = <<"workFolder">> THEN [config EXCEPT !.work_folder = value]
             ELSE IF key = <<"labels">>
                  THEN [config EXCEPT !.labels = SplitCommas(value)]
             ELSE config

RECURSIVE RunnerConfigLoop(_, _, _)
RunnerConfigLoop(config, labels, i) ==
    IF i > Len(labels) \/ config.raised THEN config
    ELSE RunnerConfigLoop(RunnerConfigItem(config, labels[i]), labels, i + 1)

\* JobPoller._parse_runner_config
ParseRunnerConfig(labels) == RunnerConfigLoop(RunnerConfigDefaults, labels, 1)

\* any('runs-on=' in str(label) for label in labels)
WantsOurRunner(labels) ==
    \E i \in 1..Len(labels) : Contains(labels[i].text, <<"runs-on", Eq>>)

\* --------------------------------------------------- webhook signatures
\* the webhook secret of a deployment: key is the secret the operator chose
\* (0 for none: None or ""; 1.. are distinct secrets), attr says whether the
\* config object handed to WebhookServer carries it as github_webhook_secret.
\* The Config class of config.py declares no such field and from_env reads no
\* such variable, so a Config object has attr = FALSE; attr = TRUE is a config
\* object of a deployment that adds the field
SecretKeys == {1, 2}
SecretConfigs == {[attr |-> a, key |-> k] : a \in BOOLEAN, k \in {0} \cup SecretKeys}

\* stands for HMAC-SHA256(key, body) as a number below 256: distinct (key, body)
\* pairs of the model have distinct digests (collision freedom is assumed)
Hmac(key, body) == (160 + key * 16 + body) % 256

HexLower == <<"0","1","2","3","4","5","6","7","8","9","a","b","c","d","e","f">>
HexUpper == <<"0","1","2","3","4","5","6","7","8","9","A","B","C","D","E","F">>

\* hash_object.hexdigest(): two lower-case hex digits of the digest
HexDigest(mac) == <<HexLower[(mac \div 16) + 1], HexLower[(mac % 16) + 1]>>

\* a request header: present is FALSE for a missing header (None)
Header(text) == [present |-> TRUE, text |-> text]
NoHeader == [present |-> FALSE, text |-> <<>>]

\* hmac.compare_digest(a, b) on two str values
CompareDigest(a, b) == a = b

\* WebhookServer._verify_signature: "true", "false", or "raise" when the
\* attribute lookup on the config raises outside the try block
VerifySignature(secret, payload_body, signature_header) ==
    IF ~signature_header.present \/ signature_header.text = <<>> THEN "false"
    ELSE IF ~secret.attr THEN "raise"
    ELSE IF secret.key = 0 THEN "false"
    ELSE IF CompareDigest(<<"sha256", Eq>> \o HexDigest(Hmac(secret.key, payload_body)),
                          signature_header.text)
         THEN "true" ELSE "false"

\* ------------------------------------------------------- webhook payloads
JobIds == {4, 42}

DigitTokens == <<"0","1","2","3","4","5","6","7","8","9">>

\* str(n) for a natural number, one token per decimal digit
RECURSIVE DigitText(_)
DigitText(n) ==
    IF n < 10 THEN <<DigitTokens[n + 1]>>
    ELSE DigitText(n \div 10) \o <<DigitTokens[(n % 10) + 1]>>

\* labels of a job that asks for one of our runners
GoodLabels(jobTok) ==
    << Label(TRUE, <<"runs-on", Eq, jobTok>>),
       Label(TRUE, <<"cpu", Eq, "4">>),
       Label(TRUE, <<"image", Eq, "ami-x">>) >>

\* labels of a job that is not ours
PlainLabels == << Label(TRUE, <<"self-hosted">>), Label(TRUE, <<"linux">>) >>

\* labels whose cpu value is no integer
BadCpuLabels(jobTok) ==
    << Label(TRUE, <<"runs-on", Eq, jobTok>>), Label(TRUE, <<"cpu", Eq, "abc">>) >>

\* labels none of which has the key runs-on, one of which holds the text
\* "runs-on=" further in ("no-runs-on=true")
LookalikeLabels == << Label(TRUE, <<"no-", "runs-on", Eq, "true">>) >>

GoodUrl == "https://github.com/acme/app"
BadUrl == ""

\* GitHubClient.parse_repository_from_url on the two urls of the model
ParseRepositoryFromUrl(repo_url) ==
    IF repo_url = GoodUrl
    THEN [ok |-> TRUE, owner |-> "acme", repo |-> "app"]
    ELSE [ok |-> FALSE, owner |-> "", repo |-> ""]

Payload(kind, action, job, labels, repo_url) ==
    [kind |-> kind, action |-> action, job |-> job, labels |-> labels,
     repo_url |-> repo_url]

\* the raw request bodies of the model; a body is its index in this table and
\* request.get_json() reads the entry: "json" is a truthy JSON document,
\* "empty" a falsy one ({}), "garbage" makes get_json raise BadRequest
BodyTable == <<
    Payload("json", "queued", 4, GoodLabels("4"), GoodUrl),
    Payload("json", "queued", 42, GoodLabels("42"), GoodUrl),
    Payload("json", "completed", 4, GoodLabels("4"), GoodUrl),
    Payload("json", "completed", 42, GoodLabels("42"), GoodUrl),
    Payload("json", "cancelled", 42, GoodLabels("42"), GoodUrl),
    Payload("json", "queued", 4, PlainLabels, GoodUrl),
    Payload("json", "queued", 42, BadCpuLabels("42"), GoodUrl),
    Payload("json", "queued", 42, GoodLabels("42"), BadUrl),
    Payload("json", "in_progress", 4, GoodLabels("4"), GoodUrl),
    Payload("empty", "", 0, <<>>, BadUrl),
    Payload("garbage", "", 0, <<>>, BadUrl) >>

Bodies == 1..Len(BodyTable)

\* X-GitHub-Event values
Events == {"workflow_job", "ping"}

\* the header a sender who knows key computes for body
SignedHeader(key, body) == Header(<<"sha256", Eq>> \o HexDigest(Hmac(key, body)))

Request(body, header, event) == [body |-> body, header |-> header, event |-> event]

\* the POST /webhook requests of the model: every body correctly signed with
\* key 1; one body unsigned, with an empty header, signed with another key,
\* and carrying the signature of another body; one event that is no
\* workflow_job
Requests ==
    {Request(b, SignedHeader(1, b), "workflow_job") : b \in Bodies}
    \cup {Request(2, h, "workflow_job") :
            h \in {NoHeader, Header(<<>>), SignedHeader(2, 2), SignedHeader(1, 1)}}
    \cup {Request(2, SignedHeader(1, 2), "ping")}

\* ----------------------------------------------------------------- state
VARIABLES
    program,      \* which program runs: "webhook" or "poller"
    cfg_secret,   \* the webhook secret and whether the config object carries it
    sig,          \* one call of _verify_signature: its arguments and result
    call,         \* one call of a label-parsing function: arguments and result
    boot,         \* main(): the mandatory settings and how far startup got
    wait,         \* one call of _wait_for_spot_fulfillment: the time it has
                  \* taken, the last request state it saw and its result
    polls,        \* JobPoller.polling and poll_thread under start_polling and
                  \* stop_polling calls: the flag and every loop thread started
    locking,      \* runners_lock: who holds it, and each thread's place in the
                  \* routine it runs, step by step
    now,          \* the wall clock, in seconds
    ticks,        \* clock advances so far
    instances,    \* instance provider: the instances launched, id = index
    terms,        \* instance provider: per instance, who called terminate
    groups,       \* job source: the scale sets created, id = index
    rm_runners,   \* RunnerManager.active_runners, in dict (insertion) order
    jp_runners,   \* JobPoller.active_runners, in dict (insertion) order
    scale_sets,   \* JobPoller.scale_sets: the cache, name -> scale set id
    pc,           \* where each thread stands
    loc,          \* each thread's local variables
    delivered,    \* HTTP requests that started work so far
    cycles        \* poll cycles started so far

awsVars == <<instances, terms>>
envVars == <<program, cfg_secret, sig, call, locking, boot, polls, wait>>
clockVars == <<now, ticks>>
pollVars == <<groups, jp_runners, scale_sets, cycles>>
vars == <<program, cfg_secret, sig, call, locking, boot, polls, wait, now, ticks, instances, terms, groups, rm_runners,
          jp_runners, scale_sets, pc, loc, delivered, cycles>>

Handlers == {"h1", "h2"}
CleanupThread == "ct"
PollThread == "poll"
WebThreads == Handlers \cup {CleanupThread}
Threads == WebThreads \cup {PollThread}

\* a runner name f"runner-{job_id}-{uuid4().hex[:8]}" as its two parts
RunnerName(job, uid) == [job |-> job, uid |-> uid]
NoName == RunnerName(0, 0)

\* the text of a runner name
RunnerNameText(name) ==
    <<"runner-">> \o DigitText(name.job) \o <<"-">> \o <<HexLower[(name.uid % 16) + 1]>>

\* a record as the request that should end it sees it: its name and instance
Tracked(name, instance_id) == [name |-> name, instance_id |-> instance_id]
NoTracked == Tracked(NoName, 0)

\* a thread's locals between two pieces of work
LocIdle ==
    [action |-> "", job |-> 0, owner |-> "", repo |-> "", name |-> NoName,
     config |-> RunsOnDefaults, iid |-> 0, cur |-> NoName, cur_iid |-> 0,
     queue |-> <<>>, listed |-> <<>>, victims |-> <<>>,
     resp |-> 0, verdict |-> "", parsed |-> FALSE,
     owned |-> NoTracked, alone |-> FALSE, outcome |-> "", passed |-> 0, event |-> "",
     labels |-> <<>>, jobs |-> <<>>, gid |-> 0, gname |-> NoName, made |-> FALSE,
     cur_gid |-> 0, cur_gname |-> NoName]

\* uuid4(): a value no name in use holds, in a registry or in the locals of a
\* thread (uuid4 values are taken to be unique; the least free number stands
\* for it)
FreshUid ==
    LET used == {rm_runners[i].name.uid : i \in 1..Len(rm_runners)}
                \cup {jp_runners[i].name.uid : i \in 1..Len(jp_runners)}
                \cup {loc[t].name.uid : t \in Threads}
                \cup {loc[t].cur.uid : t \in Threads}
                \cup UNION {{loc[t].queue[k].uid : k \in 1..Len(loc[t].queue)} : t \in Threads}
    IN  MinOf((1..(Cardinality(used) + 1)) \ used)

\* position of the record of a registry that holds name, 0 when none does
IndexOfName(runners, name) ==
    LET hits == {i \in 1..Len(runners) : runners[i].name = name}
    IN  IF hits = {} THEN 0 ELSE MinOf(hits)

\* a deletion that leaves the registry as it is
RemoveAtKept(runners, i) == runners

\* a registry without the record at position i (del d[name])
RemoveAt(runners, i) ==
    [k \in 1..(Len(runners) - 1) |-> IF k < i THEN runners[k] ELSE runners[k + 1]]

\* f"runner-{job_id}" in name
NameMatchesJob(name, job_id) ==
    Contains(RunnerNameText(name), <<"runner-">> \o DigitText(job_id))

\* the lookup loop of handle_workflow_job_completed: position of the first
\* record whose name matches, 0 when none does
FindRunnerForJob(runners, job_id) ==
    LET hits == {i \in 1..Len(runners) : NameMatchesJob(runners[i].name, job_id)}
    IN  IF hits = {} THEN 0 ELSE MinOf(hits)

\* sending a response touches nothing shared: it is taken at once, before any
\* other thread moves
Responding == \E t \in Threads : pc[t] = "done"

\* ------------------------------------------------------ provider effects
\* the instance the provider launches when it fulfils a spot request
\* (late: the request was fulfilled after the wait for it had ended)
NewInstance(launch, tagged, late) ==
    [launch |-> launch, state |-> "running", tagged |-> tagged, late |-> late]

\* ec2.terminate_instances on instance iid: the instance ends unless the call
\* failed with a ClientError
TerminateEffect(iid, ok) ==
    IF ok THEN [instances EXCEPT ![iid].state = "terminated"] ELSE instances

\* no call is made
TerminateSkipped(iid, who) == terms

\* the call is logged with its caller: per instance and caller the number of
\* calls, where 2 stands for two or more
TerminateLogged(iid, who) ==
    [terms EXCEPT ![iid][who] = IF @ >= 2 THEN 2 ELSE @ + 1]

\* who calls terminate: a thread running the cleanup of a record, or the
\* orphan sweep
Callers == Threads \cup {"orphan", "api"}

NoCalls == [c \in Callers |-> 0]

\* what _wait_for_spot_fulfillment can end with
\* ("late": it ends with the timeout or with a ClientError of describe, the
\* request, which nothing cancels, stays open and the provider fulfils it
\* afterwards)
WaitOutcomes == {"active", "failed", "cancelled", "timeout", "error", "late"}

\* the provider state after a wait that ended with outcome: an active request
\* has launched an instance, tagged unless create_tags failed; a request
\* fulfilled late launches one that nobody tags
LaunchedBy(outcome, tagged) ==
    IF outcome \in {"active", "late"}
    THEN Append(instances, NewInstance(now, tagged /\ outcome = "active", outcome = "late"))
    ELSE instances

\* a create_spot_instance that gives up the instance when tagging fails
SpotInstanceIdIfTagged(outcome, tagged) ==
    IF outcome = "active" /\ tagged THEN Len(instances) + 1 ELSE 0

\* what create_spot_instance returns after the wait: the id of the instance of
\* an active request, whatever _tag_instance did (it catches the ClientError
\* of create_tags and returns nothing), else None (0)
SpotInstanceId(outcome, tagged) ==
    IF outcome = "active" THEN Len(instances) + 1 ELSE 0

\* ------------------------------------------------- webhook: HTTP handling
\* the locals of a handler thread whose work is over: the response status,
\* and what the request was
Responded(l, status) ==
    [LocIdle EXCEPT !.resp = status, !.verdict = l.verdict, !.parsed = l.parsed,
                    !.action = l.action, !.job = l.job, !.owned = l.owned,
                    !.alone = l.alone, !.event = l.event]

\* `if not self._verify_signature(...)`: the request goes on only on True
SignatureGateOpen(verdict) == TRUE
SignaturePasses(verdict) == verdict = "true"

\* the status _handle_workflow_job_event answers a queued notification with,
\* given what handle_workflow_job_queued returned: 200 in both branches
QueuedResponseSurfaced(success) == IF success THEN 200 ELSE 500
QueuedResponse(success) == 200

\* the answer to a queued notification; outcome is a history field telling
\* which return of handle_workflow_job_queued was taken: "not_needed" (no
\* runs-on= label), "rejected" (repository or labels not usable), "failed"
\* (create_runner returned False) or "created"
QueuedAnswer(l, success, outcome) ==
    [Responded(l, QueuedResponse(success)) EXCEPT !.outcome = outcome]

\* the status create_runner and _create_runner_for_job give a new record
NewRunnerStatus == "starting"

\* the record create_runner inserts
RunnerRecord(name, instance_id, owner, repo, created_at, config) ==
    [name |-> name, instance_id |-> instance_id, owner |-> owner, repo |-> repo,
     created_at |-> created_at, status |-> NewRunnerStatus, config |-> config]

\* handle_workflow_job_queued up to the call of create_runner: where the
\* thread goes next and with which locals
QueuedStart(l, payload, uid) ==
    LET scope == ParseRepositoryFromUrl(payload.repo_url)
        runner_config == ParseRunsOnConfig(payload.labels)
    IN  IF ~WantsOurRunner(payload.labels)
        THEN [pc |-> "done", loc |-> QueuedAnswer(l, FALSE, "not_needed")]
        ELSE IF ~scope.ok
        THEN [pc |-> "done", loc |-> QueuedAnswer(l, FALSE, "rejected")]
        ELSE IF runner_config.raised
        THEN [pc |-> "done", loc |-> QueuedAnswer(l, FALSE, "rejected")]
        ELSE [pc |-> "create_runner",
              loc |-> [l EXCEPT !.owner = scope.owner, !.repo = scope.repo,
                                !.name = RunnerName(payload.job, uid),
                                !.labels = payload.labels,
                                !.config = runner_config]]

\* handle_workflow_job_completed up to the call of cleanup_runner
CompletedStart(l, payload, runners) ==
    LET found == FindRunnerForJob(runners, payload.job)
    IN  IF found = 0
        THEN [pc |-> "done", loc |-> Responded(l, 200)]
        ELSE [pc |-> "cl_check", loc |-> [l EXCEPT !.cur = runners[found].name]]

\* a dispatch that takes every action but queued for the end of the job
WorkflowJobEventEager(l, payload, runners, uid) ==
    IF payload.action = "queued" THEN QueuedStart(l, payload, uid)
    ELSE CompletedStart(l, payload, runners)

\* _handle_workflow_job_event
WorkflowJobEvent(l, payload, runners, uid) ==
    IF payload.action = "queued" THEN QueuedStart(l, payload, uid)
    ELSE IF payload.action \in {"completed", "cancelled"}
         THEN CompletedStart(l, payload, runners)
    ELSE [pc |-> "done", loc |-> Responded(l, 200)]

\* _handle_webhook on one request, up to the first provider call
HandleWebhook(secret, runners, uid, body, header, event) ==
    LET verdict == VerifySignature(secret, body, header)
        l0 == [LocIdle EXCEPT !.verdict = verdict, !.event = event]
        payload == BodyTable[body]
        l1 == [l0 EXCEPT !.parsed = TRUE, !.action = payload.action, !.job = payload.job]
    IN  IF verdict = "raise" THEN [pc |-> "done", loc |-> Responded(l0, 500)]
        ELSE IF ~SignaturePasses(verdict) THEN [pc |-> "done", loc |-> Responded(l0, 401)]
        ELSE IF payload.kind = "garbage" THEN [pc |-> "done", loc |-> Responded(l1, 500)]
        ELSE IF payload.kind = "empty" THEN [pc |-> "done", loc |-> Responded(l1, 400)]
        ELSE IF event = "workflow_job" THEN WorkflowJobEvent(l1, payload, runners, uid)
        ELSE [pc |-> "done", loc |-> Responded(l1, 200)]

CleanupPcs == {"cl_check", "cl_term", "cl_remove"}

\* the first record of the registry made for exactly this job
RecordOfJob(runners, job_id) ==
    LET hits == {i \in 1..Len(runners) : runners[i].name.job = job_id}
    IN  IF hits = {} THEN NoTracked
        ELSE Tracked(runners[MinOf(hits)].name, runners[MinOf(hits)].instance_id)

\* a Flask handler thread takes one POST /webhook request (the request goes to
\* the first free thread). Two history fields are kept for a completed or
\* cancelled notification: owned, the record made for exactly its job id, and
\* alone, whether no other cleanup runs while it is handled
ReceiveWebhook(t) ==
    /\ ~Responding
    /\ program = "webhook"
    /\ pc[t] = "idle"
    /\ t = "h2" => pc["h1"] # "idle"
    /\ delivered < MaxDeliveries
    /\ \E req \in Requests :
         LET out == HandleWebhook(cfg_secret, rm_runners, FreshUid,
                                  req.body, req.header, req.event)
             quiet == \A u \in WebThreads \ {t} : pc[u] \notin CleanupPcs
             ghost == [out.loc EXCEPT
                         !.owned = IF out.loc.action \in {"completed", "cancelled"}
                                   THEN RecordOfJob(rm_runners, out.loc.job)
                                   ELSE NoTracked,
                         !.alone = quiet /\ out.pc \in CleanupPcs]
         IN  /\ pc' = [pc EXCEPT ![t] = out.pc]
             /\ loc' = [loc EXCEPT ![t] = ghost]
    /\ delivered' = IF pc'[t] = "done" THEN delivered ELSE delivered + 1
    /\ UNCHANGED <<envVars, clockVars, awsVars, pollVars, rm_runners>>

\* the response is sent and the thread is free again
FinishRequest(t) ==
    /\ pc[t] = "done"
    /\ pc' = [pc EXCEPT ![t] = "idle"]
    /\ loc' = [loc EXCEPT ![t] = LocIdle]
    /\ UNCHANGED <<envVars, clockVars, awsVars, pollVars, rm_runners, delivered>>

\* ------------------------------------------- webhook: create_runner steps
\* create_runner gives up: handle_workflow_job_queued returns False
CreateRunnerFailed(t) ==
    /\ pc' = [pc EXCEPT ![t] = "done"]
    /\ loc' = [loc EXCEPT ![t] = QueuedAnswer(@, FALSE, "failed")]

\* create_runner up to the spot request: get_runner_registration_token (a
\* token, or None), then ec2.request_spot_instances (a spot request, or a
\* ClientError); neither call changes anything the controller reads later
RequestRunnerSpot(t) ==
    /\ ~Responding
    /\ t \in Handlers
    /\ pc[t] = "create_runner"
    /\ \E token \in BOOLEAN, requested \in BOOLEAN :
         IF token /\ requested
         THEN /\ pc' = [pc EXCEPT ![t] = "spot_wait"]
              /\ loc' = loc
         ELSE /\ token \/ requested
              /\ CreateRunnerFailed(t)
    /\ UNCHANGED <<envVars, clockVars, awsVars, pollVars, rm_runners, delivered>>

\* `if not instance_id: return False` of create_runner: whether the record is
\* inserted for the instance id create_spot_instance gave (0 stands for None)
InstanceCreatedOrNot(instance_id) == TRUE
InstanceCreated(instance_id) == instance_id # 0

\* _wait_for_spot_fulfillment and _tag_instance: the request turns active with
\* a new instance (tagged unless create_tags fails), or the wait ends with None
RunnerSpotWait(t) ==
    /\ ~Responding
    /\ t \in Handlers
    /\ pc[t] = "spot_wait"
    /\ \E outcome \in WaitOutcomes, tagged \in BOOLEAN :
         LET instance_id == SpotInstanceId(outcome, tagged)
         IN  /\ outcome # "active" => tagged
             /\ instances' = LaunchedBy(outcome, tagged)
             /\ terms' = IF Len(instances') > Len(instances)
                         THEN Append(terms, NoCalls) ELSE terms
             /\ IF InstanceCreated(instance_id)
                THEN /\ pc' = [pc EXCEPT ![t] = "track"]
                     /\ loc' = [loc EXCEPT ![t].iid = instance_id]
                ELSE CreateRunnerFailed(t)
    /\ UNCHANGED <<envVars, clockVars, pollVars, rm_runners, delivered>>

\* `with self.runners_lock`: the record is inserted
TrackRunner(t) ==
    /\ ~Responding
    /\ t \in Handlers
    /\ pc[t] = "track"
    /\ rm_runners' = Append(rm_runners,
                            RunnerRecord(loc[t].name, loc[t].iid, loc[t].owner,
                                         loc[t].repo, now, loc[t].config))
    /\ pc' = [pc EXCEPT ![t] = "done"]
    /\ loc' = [loc EXCEPT ![t] = QueuedAnswer(@, TRUE, "created")]
    /\ UNCHANGED <<envVars, clockVars, awsVars, pollVars, delivered>>

\* ------------------------------------------- webhook: cleanup_runner steps
\* cleanup_runner returns to its caller: a handler answers 200, the cleanup
\* thread takes the next name of runners_to_cleanup or goes on to the orphans
CleanupReturn(t, l) ==
    IF t \in Handlers
    THEN /\ pc' = [pc EXCEPT ![t] = "done"]
         /\ loc' = [loc EXCEPT ![t] = Responded(l, 200)]
    ELSE IF l.queue = <<>>
         THEN /\ pc' = [pc EXCEPT ![t] = "orph_list"]
              /\ loc' = [loc EXCEPT ![t] = [l EXCEPT !.cur = NoName, !.cur_iid = 0]]
         ELSE /\ pc' = [pc EXCEPT ![t] = "cl_check"]
              /\ loc' = [loc EXCEPT ![t] = [l EXCEPT !.cur = Head(l.queue),
                                                     !.cur_iid = 0,
                                                     !.queue = Tail(l.queue)]]

\* first `with self.runners_lock` of cleanup_runner: an unknown name returns
\* False; a known one has its instance id read, and the runner is then
\* deregistered at the job source (get_runner_remove_token, list_runners,
\* remove_runner: best effort, nothing of the controller depends on it)
CleanupCheck(t) ==
    /\ ~Responding
    /\ t \in WebThreads
    /\ pc[t] = "cl_check"
    /\ LET i == IndexOfName(rm_runners, loc[t].cur)
       IN  IF i = 0
           THEN CleanupReturn(t, loc[t])
           ELSE /\ pc' = [pc EXCEPT ![t] = "cl_term"]
                /\ loc' = [u \in Threads |->
                             IF u = t
                             THEN [loc[u] EXCEPT !.cur_iid = rm_runners[i].instance_id]
                             ELSE [loc[u] EXCEPT !.alone = FALSE]]
    /\ UNCHANGED <<envVars, clockVars, awsVars, pollVars, rm_runners, delivered>>

\* aws.terminate_instance(instance_id); its result is not looked at
TerminateRunner(t) ==
    /\ ~Responding
    /\ t \in WebThreads
    /\ pc[t] = "cl_term"
    /\ \E ok \in BOOLEAN : instances' = TerminateEffect(loc[t].cur_iid, ok)
    /\ terms' = TerminateLogged(loc[t].cur_iid, t)
    /\ pc' = [pc EXCEPT ![t] = "cl_remove"]
    /\ loc' = loc
    /\ UNCHANGED <<envVars, clockVars, pollVars, rm_runners, delivered>>

\* second `with self.runners_lock` of cleanup_runner: the record is deleted
\* if it is still there
RemoveRunner(t) ==
    /\ ~Responding
    /\ t \in WebThreads
    /\ pc[t] = "cl_remove"
    /\ LET i == IndexOfName(rm_runners, loc[t].cur)
       IN  rm_runners' = IF i = 0 THEN rm_runners ELSE RemoveAt(rm_runners, i)
    /\ CleanupReturn(t, loc[t])
    /\ UNCHANGED <<envVars, clockVars, awsVars, pollVars, delivered>>

\* ------------------------------------------------ webhook: cleanup thread
\* a sweep that finds no record old enough
OlderThanNothing(runners, cutoff) == <<>>

\* names of the records created before cutoff, in dict order
RECURSIVE OlderThan(_, _)
OlderThan(runners, cutoff) ==
    IF runners = <<>> THEN <<>>
    ELSE (IF Head(runners).created_at < cutoff THEN <<Head(runners).name>> ELSE <<>>)
         \o OlderThan(Tail(runners), cutoff)

\* _cleanup_old_runners: the names to clean are collected under the lock
SweepOldRunners ==
    /\ ~Responding
    /\ program = "webhook"
    /\ pc[CleanupThread] = "sleep"
    /\ CleanupReturn(CleanupThread,
                     [LocIdle EXCEPT !.queue = OlderThan(rm_runners, now - IdleTimeout)])
    /\ UNCHANGED <<envVars, clockVars, awsVars, pollVars, rm_runners, delivered>>

\* aws.list_runner_instances from instance id i on: the tagged instances that
\* are running or pending
RECURSIVE ListedFrom(_)
ListedFrom(i) ==
    IF i > Len(instances) THEN <<>>
    ELSE (IF instances[i].tagged /\ instances[i].state = "running"
          THEN <<[instance_id |-> i, launch_time |-> instances[i].launch]>>
          ELSE <<>>) \o ListedFrom(i + 1)

\* the cleanup thread sleeps until its next round
SweepDone ==
    /\ pc' = [pc EXCEPT ![CleanupThread] = "sleep"]
    /\ loc' = [loc EXCEPT ![CleanupThread] = LocIdle]

\* _cleanup_orphaned_instances: the provider's list is fetched ([] on a
\* ClientError)
ListOrphanCandidates ==
    /\ ~Responding
    /\ pc[CleanupThread] = "orph_list"
    /\ \E ok \in BOOLEAN :
         LET listed == IF ok THEN ListedFrom(1) ELSE <<>>
         IN  IF listed = <<>>
             THEN SweepDone
             ELSE /\ pc' = [pc EXCEPT ![CleanupThread] = "orph_cmp"]
                  /\ loc' = [loc EXCEPT ![CleanupThread].listed = listed]
    /\ UNCHANGED <<envVars, clockVars, awsVars, pollVars, rm_runners, delivered>>

\* a choice that tests neither the registry nor the age
OrphansOfUntested(listed, tracked, cutoff) ==
    [k \in 1..Len(listed) |-> listed[k].instance_id]

\* the listed instances that are untracked and were launched before cutoff
RECURSIVE OrphansOf(_, _, _)
OrphansOf(listed, tracked, cutoff) ==
    IF listed = <<>> THEN <<>>
    ELSE (IF Head(listed).instance_id \notin tracked /\ Head(listed).launch_time < cutoff
          THEN <<Head(listed).instance_id>> ELSE <<>>)
         \o OrphansOf(Tail(listed), tracked, cutoff)

\* the tracked instance ids are read under the lock and the orphans chosen.
\* `instance['launch_time'] < cutoff_time` compares the provider's LaunchTime
\* with datetime.now() - timedelta(hours=1), which carries no time zone: when
\* LaunchTime carries one (aware) the comparison raises TypeError at the first
\* untracked instance and the except of the routine ends the sweep
CompareOrphans ==
    /\ ~Responding
    /\ pc[CleanupThread] = "orph_cmp"
    /\ \E aware \in BOOLEAN :
         LET listed == loc[CleanupThread].listed
             tracked == {rm_runners[i].instance_id : i \in 1..Len(rm_runners)}
             compared == \E k \in 1..Len(listed) : listed[k].instance_id \notin tracked
             victims == IF aware THEN <<>>
                        ELSE OrphansOf(listed, tracked, now - OrphanThreshold)
         IN  /\ aware => compared
             /\ IF victims = <<>>
                THEN SweepDone
                ELSE /\ pc' = [pc EXCEPT ![CleanupThread] = "orph_term"]
                     /\ loc' = [loc EXCEPT ![CleanupThread].victims = victims,
                                           ![CleanupThread].listed = <<>>]
    /\ UNCHANGED <<envVars, clockVars, awsVars, pollVars, rm_runners, delivered>>

\* aws.terminate_instance on the next orphan
TerminateOrphan ==
    /\ ~Responding
    /\ pc[CleanupThread] = "orph_term"
    /\ LET iid == Head(loc[CleanupThread].victims)
           rest == Tail(loc[CleanupThread].victims)
       IN  /\ \E ok \in BOOLEAN : instances' = TerminateEffect(iid, ok)
           /\ terms' = TerminateLogged(iid, "orphan")
           /\ IF rest = <<>>
              THEN SweepDone
              ELSE /\ pc' = pc
                   /\ loc' = [loc EXCEPT ![CleanupThread].victims = rest]
    /\ UNCHANGED <<envVars, clockVars, pollVars, rm_runners, delivered>>

\* ------------------------------------------------- poller: the job source
\* a job as the job source reports it
QueuedJob(job_id, labels, repository) ==
    [job_id |-> job_id, labels |-> labels, repository |-> repository]

\* what the job source holds as queued jobs when a cycle asks (nothing also
\* stands for a failed request)
PollResults ==
    { <<>>,
      <<QueuedJob(4, GoodLabels("4"), "acme/app")>>,
      <<QueuedJob(42, GoodLabels("42"), "acme/app")>>,
      <<QueuedJob(42, GoodLabels("42"), "acme/app"), QueuedJob(4, GoodLabels("4"), "acme/app")>>,
      <<QueuedJob(4, PlainLabels, "acme/app"), QueuedJob(42, GoodLabels("42"), "acme/app")>>,
      <<QueuedJob(42, BadCpuLabels("42"), "acme/app"), QueuedJob(4, GoodLabels("4"), "acme/app")>>,
      <<QueuedJob(4, LookalikeLabels, "acme/app")>> }

\* get_queued_jobs keeps the queued jobs that carry a runs-on= label
RECURSIVE GetQueuedJobs(_)
GetQueuedJobs(raw) ==
    IF raw = <<>> THEN <<>>
    ELSE (IF WantsOurRunner(Head(raw).labels) THEN <<Head(raw)>> ELSE <<>>)
         \o GetQueuedJobs(Tail(raw))

\* a scale set at the job source: deletes counts the delete calls made for it
\* (2 stands for two or more), refused says whether one of them failed, ours
\* whether this program created it
ScaleSet(state, ours) ==
    [state |-> state, deletes |-> 0, refused |-> FALSE, ours |-> ours]

\* list_scale_sets from id i on: the ids of the scale sets that exist
RECURSIVE ListScaleSets(_)
ListScaleSets(i) ==
    IF i > Len(groups) THEN <<>>
    ELSE (IF groups[i].state = "live" THEN <<i>> ELSE <<>>) \o ListScaleSets(i + 1)

\* delete_scale_set(org, gid) without a request to the job source
DeleteScaleSetSkipped(gid, ok) == groups

\* delete_scale_set(org, gid): the scale set goes unless the call fails
DeleteScaleSet(gid, ok) ==
    [groups EXCEPT ![gid].state = IF ok THEN "deleted" ELSE @,
                   ![gid].refused = @ \/ ~ok,
                   ![gid].deletes = IF @ >= 2 THEN 2 ELSE @ + 1]

\* a scale set name f"scaleset-{job_id}-{uuid4().hex[:8]}" as its two parts
ScaleSetName(job, uid) == [job |-> job, uid |-> uid]

\* uuid4() for a scale set name
FreshSetUid ==
    LET used == {e.name.uid : e \in scale_sets}
                \cup {jp_runners[i].scale_set_name.uid : i \in 1..Len(jp_runners)}
                \cup {loc[PollThread].gname.uid}
    IN  MinOf((1..(Cardinality(used) + 1)) \ used)

\* an entry of JobPoller.scale_sets
CacheEntry(name, id) == [name |-> name, id |-> id]

\* the record _create_runner_for_job inserts
PolledRunnerRecord(name, job_id, instance_id, scale_set_id, scale_set_name, repository, created_at, config) ==
    [name |-> name, job_id |-> job_id, instance_id |-> instance_id,
     scale_set_id |-> scale_set_id, scale_set_name |-> scale_set_name,
     repository |-> repository, created_at |-> created_at,
     status |-> NewRunnerStatus, config |-> config]

\* a gate that also turns down a job for which a scale set name is cached
ShouldCreateRunnerForJobUncached(job, runners) ==
    /\ WantsOurRunner(job.labels)
    /\ \A i \in 1..Len(runners) : runners[i].job_id # job.job_id
    /\ \A e \in scale_sets : e.name.job # job.job_id

\* a gate that looks at the labels only
ShouldCreateRunnerForJobAlways(job, runners) == WantsOurRunner(job.labels)

\* _should_create_runner_for_job
ShouldCreateRunnerForJob(job, runners) ==
    /\ WantsOurRunner(job.labels)
    /\ \A i \in 1..Len(runners) : runners[i].job_id # job.job_id

\* --------------------------------------------------- poller: provisioning
\* a loop head that never looks at the flag
LoopGoesOnUnasked(polling) == TRUE

\* `while self.polling` of _poll_loop
LoopGoesOn(polling) == polling

\* _process_queued_jobs: the loop goes on, a cycle starts and fetches the
\* queued jobs
ProcessQueuedJobs ==
    /\ program = "poller"
    /\ pc[PollThread] = "sleep"
    /\ LoopGoesOn(boot.polling)
    /\ cycles < MaxCycles
    /\ cycles' = cycles + 1
    /\ \E raw \in PollResults :
         loc' = [loc EXCEPT ![PollThread] = [LocIdle EXCEPT !.jobs = GetQueuedJobs(raw)]]
    /\ pc' = [pc EXCEPT ![PollThread] = "jobs"]
    /\ UNCHANGED <<envVars, clockVars, awsVars, groups, jp_runners, scale_sets,
                   rm_runners, delivered>>

\* a return that leaves the loop: the jobs not yet looked at are dropped
NextJobLocalsStopped(l) == LocIdle

\* _create_runner_for_job returns: the loop goes on with the next job
NextJobLocals(l) ==
    [LocIdle EXCEPT !.jobs = l.jobs]

\* the loop of _process_queued_jobs takes the next job; for a job that should
\* get a runner _create_runner_for_job parses the labels (a ValueError of
\* int() ends the call) and makes the two names; passed is a history field:
\* the job id just passed over because a record of it is tracked
TakeQueuedJob ==
    /\ pc[PollThread] = "jobs"
    /\ LET l == loc[PollThread]
       IN  IF l.jobs = <<>>
           THEN /\ pc' = [pc EXCEPT ![PollThread] = "scan"]
                /\ loc' = [loc EXCEPT ![PollThread] = LocIdle]
           ELSE LET job == Head(l.jobs)
                    rest == [LocIdle EXCEPT !.jobs = Tail(l.jobs)]
                    runner_config == ParseRunnerConfig(job.labels)
                    tracked == \E k \in 1..Len(jp_runners) :
                                   jp_runners[k].job_id = job.job_id
                IN  IF ~ShouldCreateRunnerForJob(job, jp_runners) \/ runner_config.raised
                    THEN /\ pc' = pc
                         /\ loc' = [loc EXCEPT ![PollThread] =
                                      [rest EXCEPT !.passed =
                                         IF WantsOurRunner(job.labels) /\ tracked
                                         THEN job.job_id ELSE 0]]
                    ELSE /\ pc' = [pc EXCEPT ![PollThread] = "scale_set"]
                         /\ loc' = [loc EXCEPT ![PollThread] =
                                      [rest EXCEPT !.job = job.job_id,
                                                   !.labels = job.labels,
                                                   !.repo = job.repository,
                                                   !.config = runner_config,
                                                   !.name = RunnerName(job.job_id, FreshUid),
                                                   !.gname = ScaleSetName(job.job_id, FreshSetUid)]]
    /\ UNCHANGED <<envVars, clockVars, awsVars, pollVars, rm_runners, delivered>>

\* _get_or_create_scale_set: a cached name gives its id; else the first scale
\* set the job source lists is taken; else one is created (None on failure,
\* which ends _create_runner_for_job); the id found goes into the cache
GetOrCreateScaleSet ==
    /\ pc[PollThread] = "scale_set"
    /\ LET l == loc[PollThread]
           cached == {e \in scale_sets : e.name = l.gname}
       IN  IF cached # {}
           THEN /\ pc' = [pc EXCEPT ![PollThread] = "spot_request"]
                /\ loc' = [loc EXCEPT ![PollThread].gid = (CHOOSE e \in cached : TRUE).id]
                /\ UNCHANGED <<groups, scale_sets>>
           ELSE \E listed \in BOOLEAN, created \in BOOLEAN :
                  LET existing_scale_sets == IF listed THEN ListScaleSets(1) ELSE <<>>
                  IN  IF existing_scale_sets # <<>>
                      THEN /\ created
                           /\ scale_sets' = scale_sets
                                \cup {CacheEntry(l.gname, existing_scale_sets[1])}
                           /\ groups' = groups
                           /\ pc' = [pc EXCEPT ![PollThread] = "spot_request"]
                           /\ loc' = [loc EXCEPT ![PollThread].gid = existing_scale_sets[1]]
                      ELSE IF created
                      THEN /\ groups' = Append(groups, ScaleSet("live", TRUE))
                           /\ scale_sets' = scale_sets
                                \cup {CacheEntry(l.gname, Len(groups) + 1)}
                           /\ pc' = [pc EXCEPT ![PollThread] = "spot_request"]
                           /\ loc' = [loc EXCEPT ![PollThread].gid = Len(groups) + 1,
                                                 ![PollThread].made = TRUE]
                      ELSE /\ UNCHANGED <<groups, scale_sets>>
                           /\ pc' = [pc EXCEPT ![PollThread] = "jobs"]
                           /\ loc' = [loc EXCEPT ![PollThread] = NextJobLocals(l)]
    /\ UNCHANGED <<envVars, clockVars, awsVars, jp_runners, cycles, rm_runners, delivered>>

\* get_registration_token (None ends _create_runner_for_job), then
\* create_spot_instance up to ec2.request_spot_instances (a ClientError makes
\* it return None)
RequestPolledSpot ==
    /\ pc[PollThread] = "spot_request"
    /\ \E token \in BOOLEAN, requested \in BOOLEAN :
         IF ~token
         THEN /\ requested
              /\ pc' = [pc EXCEPT ![PollThread] = "jobs"]
              /\ loc' = [loc EXCEPT ![PollThread] = NextJobLocals(@)]
         ELSE /\ pc' = [pc EXCEPT ![PollThread] =
                          IF requested THEN "spot_wait" ELSE "rollback"]
              /\ loc' = loc
    /\ UNCHANGED <<envVars, clockVars, awsVars, pollVars, rm_runners, delivered>>

\* _wait_for_spot_fulfillment and _tag_instance within create_spot_instance
PolledSpotWait ==
    /\ pc[PollThread] = "spot_wait"
    /\ \E outcome \in WaitOutcomes, tagged \in BOOLEAN :
         LET instance_id == SpotInstanceId(outcome, tagged)
         IN  /\ outcome # "active" => tagged
             /\ instances' = LaunchedBy(outcome, tagged)
             /\ terms' = IF Len(instances') > Len(instances)
                         THEN Append(terms, NoCalls) ELSE terms
             /\ pc' = [pc EXCEPT ![PollThread] =
                         IF instance_id # 0 THEN "track" ELSE "rollback"]
             /\ loc' = [loc EXCEPT ![PollThread].iid = instance_id]
    /\ UNCHANGED <<envVars, clockVars, pollVars, rm_runners, delivered>>

\* `if not instance_id`: the scale set is deleted at the job source (the
\* result of the call is not looked at) and _create_runner_for_job returns
RollbackScaleSet ==
    /\ pc[PollThread] = "rollback"
    /\ \E ok \in BOOLEAN :
         groups' = DeleteScaleSet(loc[PollThread].gid, ok)
    /\ pc' = [pc EXCEPT ![PollThread] = "rolled_back"]
    /\ loc' = loc
    /\ UNCHANGED <<envVars, clockVars, awsVars, jp_runners, scale_sets, cycles,
                   rm_runners, delivered>>

\* _create_runner_for_job returns after the rollback
RollbackReturn ==
    /\ pc[PollThread] = "rolled_back"
    /\ pc' = [pc EXCEPT ![PollThread] = "jobs"]
    /\ loc' = [loc EXCEPT ![PollThread] = NextJobLocals(@)]
    /\ UNCHANGED <<envVars, clockVars, awsVars, pollVars, rm_runners, delivered>>

\* `with self.runners_lock`: the record is inserted
TrackPolledRunner ==
    /\ pc[PollThread] = "track"
    /\ LET l == loc[PollThread]
       IN  jp_runners' = Append(jp_runners,
                                PolledRunnerRecord(l.name, l.job, l.iid, l.gid, l.gname,
                                                   l.repo, now, l.config))
    /\ pc' = [pc EXCEPT ![PollThread] = "jobs"]
    /\ loc' = [loc EXCEPT ![PollThread] = NextJobLocals(@)]
    /\ UNCHANGED <<envVars, clockVars, awsVars, groups, scale_sets, cycles,
                   rm_runners, delivered>>

\* ---------------------------------------------------------- poller: cleanup
\* the poll thread goes to sleep, or takes the next name of runners_to_cleanup
PolledCleanupNext(l) ==
    IF l.queue = <<>>
    THEN /\ pc' = [pc EXCEPT ![PollThread] = "sleep"]
         /\ loc' = [loc EXCEPT ![PollThread] = LocIdle]
    ELSE /\ pc' = [pc EXCEPT ![PollThread] = "pcl_check"]
         /\ loc' = [loc EXCEPT ![PollThread] =
                      [LocIdle EXCEPT !.cur = Head(l.queue), !.queue = Tail(l.queue)]]

\* _cleanup_completed_runners: the names of the records older than the idle
\* timeout are collected under the lock
CleanupCompletedRunners ==
    /\ pc[PollThread] = "scan"
    /\ PolledCleanupNext([LocIdle EXCEPT !.queue = OlderThan(jp_runners, now - IdleTimeout)])
    /\ UNCHANGED <<envVars, clockVars, awsVars, pollVars, rm_runners, delivered>>

\* first `with self.runners_lock` of _cleanup_runner
PolledCleanupCheck ==
    /\ pc[PollThread] = "pcl_check"
    /\ LET l == loc[PollThread]
           i == IndexOfName(jp_runners, l.cur)
       IN  IF i = 0
           THEN PolledCleanupNext(l)
           ELSE /\ pc' = [pc EXCEPT ![PollThread] = "pcl_term"]
                /\ loc' = [loc EXCEPT ![PollThread].cur_iid = jp_runners[i].instance_id,
                                      ![PollThread].cur_gid = jp_runners[i].scale_set_id,
                                      ![PollThread].cur_gname = jp_runners[i].scale_set_name]
    /\ UNCHANGED <<envVars, clockVars, awsVars, pollVars, rm_runners, delivered>>

\* aws.terminate_instance(instance_id); its result is not looked at
TerminatePolledRunner ==
    /\ pc[PollThread] = "pcl_term"
    /\ \E ok \in BOOLEAN : instances' = TerminateEffect(loc[PollThread].cur_iid, ok)
    /\ terms' = TerminateLogged(loc[PollThread].cur_iid, PollThread)
    /\ pc' = [pc EXCEPT ![PollThread] = "pcl_group"]
    /\ loc' = loc
    /\ UNCHANGED <<envVars, clockVars, pollVars, rm_runners, delivered>>

\* `if scale_set_id`: the scale set is deleted at the job source and its name
\* taken out of the cache
DeletePolledScaleSet ==
    /\ pc[PollThread] = "pcl_group"
    /\ LET l == loc[PollThread]
       IN  IF l.cur_gid # 0
           THEN /\ \E ok \in BOOLEAN : groups' = DeleteScaleSet(l.cur_gid, ok)
                /\ scale_sets' = {e \in scale_sets : e.name # l.cur_gname}
           ELSE UNCHANGED <<groups, scale_sets>>
    /\ pc' = [pc EXCEPT ![PollThread] = "pcl_remove"]
    /\ loc' = loc
    /\ UNCHANGED <<envVars, clockVars, awsVars, jp_runners, cycles, rm_runners, delivered>>

\* second `with self.runners_lock` of _cleanup_runner
RemovePolledRunner ==
    /\ pc[PollThread] = "pcl_remove"
    /\ LET i == IndexOfName(jp_runners, loc[PollThread].cur)
       IN  jp_runners' = IF i = 0 THEN jp_runners ELSE RemoveAt(jp_runners, i)
    /\ PolledCleanupNext(loc[PollThread])
    /\ UNCHANGED <<envVars, clockVars, awsVars, groups, scale_sets, cycles,
                   rm_runners, delivered>>

\* POST /cleanup of either program: cleanup_old_instances(max_age_hours=0)
\* calls terminate for every listed instance launched before now; each call
\* may fail
ManualCleanup ==
    /\ ~Responding
    /\ boot.main = "serving"
    /\ delivered < MaxDeliveries
    /\ delivered' = delivered + 1
    /\ LET old == {i \in 1..Len(instances) :
                     /\ instances[i].tagged
                     /\ instances[i].state = "running"
                     /\ now - instances[i].launch > 0}
       IN  /\ old # {}
           /\ \E done \in SUBSET old :
                instances' = [i \in 1..Len(instances) |->
                                IF i \in done
                                THEN [instances[i] EXCEPT !.state = "terminated"]
                                ELSE instances[i]]
           /\ terms' = [i \in 1..Len(terms) |->
                          IF i \in old
                          THEN [terms[i] EXCEPT !["api"] = IF @ >= 2 THEN 2 ELSE @ + 1]
                          ELSE terms[i]]
    /\ UNCHANGED <<envVars, clockVars, pollVars, rm_runners, pc, loc>>

\* ------------------------------------------------------------------ clock
\* the clock moves on by the idle timeout, or by a second more than the
\* orphan threshold
TimeSteps == {IdleTimeout, OrphanThreshold + 1}

Tick ==
    /\ ~Responding
    /\ ticks < MaxTicks
    /\ \E d \in TimeSteps : now' = now + d
    /\ ticks' = ticks + 1
    /\ UNCHANGED <<envVars, awsVars, pollVars, rm_runners, pc, loc, delivered>>

\* ------------------------------------------------------------ specification
Programs == {"webhook", "poller"}

\* the scale sets the job source holds when the poller starts: none, or one
\* made by someone else
StartScaleSets == {<<>>, <<ScaleSet("live", FALSE)>>}

\* the server's secret: key 1 on a Config object, and on a config object that
\* carries the secret either no secret or key 1
ServerSecrets ==
    {[attr |-> FALSE, key |-> 1], [attr |-> TRUE, key |-> 0], [attr |-> TRUE, key |-> 1]}

\* no call of _verify_signature is looked at on its own
NoSig == [secret |-> [attr |-> FALSE, key |-> 0], body |-> 0, header |-> NoHeader,
          verdict |-> "", step |-> "none"]

\* startup is over: the settings were there, polling was started and the HTTP
\* server serves; polling is JobPoller.polling, at_stop a history field: where
\* the poll thread stood when stop_polling was called
Booted == [token |-> TRUE, org |-> TRUE, main |-> "serving", polling |-> TRUE, at_stop |-> ""]

\* _wait_for_spot_fulfillment is looked at step by step in a specification of
\* its own: no call is under way
NoWait == [pc |-> "none", elapsed |-> 0, state |-> "none", result |-> "none"]

\* start_polling and stop_polling are looked at in a specification of their
\* own: no call was made, no loop thread exists
NoPolls == [polling |-> FALSE, tasks |-> <<>>, poll_thread |-> 0,
            caller |-> "idle", calls |-> 0]

\* the lock is looked at in a specification of its own: nobody holds it and
\* no thread is in a routine
NoLocking == [holder |-> "free",
              at |-> [t \in Threads |-> [routine |-> "none", i |-> 0]]]

\* no call of a label-parsing function is looked at
NoCall == [fn |-> "none", cpu_count |-> 0, labels |-> <<>>, type |-> Absent,
           config |-> RunsOnDefaults, step |-> "none"]

Init ==
    /\ program \in Programs
    /\ cfg_secret \in ServerSecrets
    /\ sig = NoSig
    /\ call = NoCall
    /\ locking = NoLocking
    /\ boot = Booted
    /\ polls = NoPolls
    /\ wait = NoWait
    /\ now = 0
    /\ ticks = 0
    /\ instances = <<>>
    /\ terms = <<>>
    /\ groups \in (IF program = "poller" THEN StartScaleSets ELSE {<<>>})
    /\ rm_runners = <<>>
    /\ jp_runners = <<>>
    /\ scale_sets = {}
    /\ pc = [t \in Threads |->
               IF program = "webhook"
               THEN (IF t \in Handlers THEN "idle"
                     ELSE IF t = CleanupThread THEN "sleep" ELSE "off")
               ELSE (IF t = PollThread THEN "sleep" ELSE "off")]
    /\ loc = [t \in Threads |-> LocIdle]
    /\ delivered = 0
    /\ cycles = 0

Next ==
    \/ \E t \in Handlers : FinishRequest(t)
    \/ \E t \in Handlers : ReceiveWebhook(t)
    \/ \E t \in Handlers : RequestRunnerSpot(t)
    \/ \E t \in Handlers : RunnerSpotWait(t)
    \/ \E t \in Handlers : TrackRunner(t)
    \/ \E t \in WebThreads : CleanupCheck(t)
    \/ \E t \in WebThreads : TerminateRunner(t)
    \/ \E t \in WebThreads : RemoveRunner(t)
    \/ SweepOldRunners
    \/ ListOrphanCandidates
    \/ CompareOrphans
    \/ TerminateOrphan
    \/ ProcessQueuedJobs
    \/ TakeQueuedJob
    \/ GetOrCreateScaleSet
    \/ RequestPolledSpot
    \/ PolledSpotWait
    \/ RollbackScaleSet
    \/ RollbackReturn
    \/ TrackPolledRunner
    \/ CleanupCompletedRunners
    \/ PolledCleanupCheck
    \/ TerminatePolledRunner
    \/ DeletePolledScaleSet
    \/ RemovePolledRunner
    \/ ManualCleanup
    \/ Tick

Spec == Init /\ [][Next]_vars

\* ------------------------------------------- main() of the polling program
\* a validation that lets every configuration through
ValidateConfigLax(github_token, github_org) == TRUE

\* validate_config: both required fields are non-empty (the arguments say
\* whether GITHUB_TOKEN and GITHUB_ORG gave a non-empty value)
ValidateConfig(github_token, github_org) == github_token /\ github_org

\* the process has just been started: Config.from_env() has read the
\* environment, no thread runs
InitMain ==
    /\ program = "poller"
    /\ cfg_secret = [attr |-> FALSE, key |-> 0]
    /\ sig = NoSig
    /\ call = NoCall
    /\ locking = NoLocking
    /\ \E token \in BOOLEAN, org \in BOOLEAN :
         boot = [token |-> token, org |-> org, main |-> "start",
                 polling |-> FALSE, at_stop |-> ""]
    /\ polls = NoPolls
    /\ wait = NoWait
    /\ now = 0
    /\ ticks = 0
    /\ instances = <<>>
    /\ terms = <<>>
    /\ groups \in StartScaleSets
    /\ rm_runners = <<>>
    /\ jp_runners = <<>>
    /\ scale_sets = {}
    /\ pc = [t \in Threads |-> "off"]
    /\ loc = [t \in Threads |-> LocIdle]
    /\ delivered = 0
    /\ cycles = 0

\* what a step of main() leaves alone, pc apart
MainFrame ==
    UNCHANGED <<program, cfg_secret, sig, call, locking, polls, wait, clockVars, awsVars,
                pollVars, rm_runners, loc, delivered>>

\* `if not validate_config(config): sys.exit(1)`
MainValidate ==
    /\ boot.main = "start"
    /\ boot' = [boot EXCEPT !.main = IF ValidateConfig(boot.token, boot.org)
                                     THEN "validated" ELSE "exited"]
    /\ pc' = pc
    /\ MainFrame

\* JobPoller(config) and poller.start_polling(...): polling is False on a new
\* JobPoller, so the flag is set and the poll thread is started
MainStartPolling ==
    /\ boot.main = "validated"
    /\ ~boot.polling
    /\ boot' = [boot EXCEPT !.main = "polling", !.polling = TRUE]
    /\ pc' = [pc EXCEPT ![PollThread] = "sleep"]
    /\ MainFrame

\* create_api_server(poller) and app.run(...): requests are served from now on
MainServe ==
    /\ boot.main = "polling"
    /\ boot' = [boot EXCEPT !.main = "serving"]
    /\ pc' = pc
    /\ MainFrame

\* a shutdown signal or a keyboard interrupt reaches main(): stop_polling
\* clears the flag and starts to join the poll thread
MainStopPolling ==
    /\ boot.main = "serving"
    /\ boot' = [boot EXCEPT !.main = "joining", !.polling = FALSE,
                            !.at_stop = pc[PollThread]]
    /\ pc' = pc
    /\ MainFrame

\* poll_thread.join(timeout=5) returns: the thread has ended or the five
\* seconds are over
MainJoinReturn ==
    /\ boot.main = "joining"
    /\ boot' = [boot EXCEPT !.main = "stopped"]
    /\ pc' = pc
    /\ MainFrame

\* `while self.polling` finds the flag cleared: _poll_loop returns and the
\* thread ends
PollLoopEnd ==
    /\ program = "poller"
    /\ pc[PollThread] = "sleep"
    /\ ~LoopGoesOn(boot.polling)
    /\ pc' = [pc EXCEPT ![PollThread] = "ended"]
    /\ boot' = boot
    /\ MainFrame

NextMain ==
    \/ MainValidate
    \/ MainStartPolling
    \/ MainServe
    \/ MainStopPolling
    \/ MainJoinReturn
    \/ PollLoopEnd
    \/ ProcessQueuedJobs
    \/ TakeQueuedJob
    \/ GetOrCreateScaleSet
    \/ RequestPolledSpot
    \/ PolledSpotWait
    \/ RollbackScaleSet
    \/ RollbackReturn
    \/ TrackPolledRunner
    \/ CleanupCompletedRunners
    \/ PolledCleanupCheck
    \/ TerminatePolledRunner
    \/ DeletePolledScaleSet
    \/ RemovePolledRunner
    \/ ManualCleanup
    \/ Tick

SpecMain == InitMain /\ [][NextMain]_vars

\* ------------------------------------------- runs of several poll cycles
\* a run in which the poll thread makes PollCycles cycles and the webhook
\* server takes LiveDeliveries requests; the job source starts with no scale
\* set
InitRetry ==
    /\ program \in Programs
    /\ cfg_secret \in ServerSecrets
    /\ sig = NoSig
    /\ call = NoCall
    /\ locking = NoLocking
    /\ boot = Booted
    /\ polls = NoPolls
    /\ wait = NoWait
    /\ now = 0
    /\ ticks = 0
    /\ instances = <<>>
    /\ terms = <<>>
    /\ groups = <<>>
    /\ rm_runners = <<>>
    /\ jp_runners = <<>>
    /\ scale_sets = {}
    /\ pc = [t \in Threads |->
               IF program = "webhook"
               THEN (IF t \in Handlers THEN "idle"
                     ELSE IF t = CleanupThread THEN "sleep" ELSE "off")
               ELSE (IF t = PollThread THEN "sleep" ELSE "off")]
    /\ loc = [t \in Threads |-> LocIdle]
    /\ delivered = MaxDeliveries - LiveDeliveries
    /\ cycles = MaxCycles - PollCycles

SpecRetry == InitRetry /\ [][Next]_vars

\* ------------------------------------------- the threads keep running
\* the steps of one Flask handler thread once it has taken a request
HandlerNext(t) ==
    \/ FinishRequest(t)
    \/ RequestRunnerSpot(t)
    \/ RunnerSpotWait(t)
    \/ TrackRunner(t)
    \/ CleanupCheck(t)
    \/ TerminateRunner(t)
    \/ RemoveRunner(t)

\* the steps of _cleanup_loop (`while True`)
CleanupThreadNext ==
    \/ SweepOldRunners
    \/ CleanupCheck(CleanupThread)
    \/ TerminateRunner(CleanupThread)
    \/ RemoveRunner(CleanupThread)
    \/ ListOrphanCandidates
    \/ CompareOrphans
    \/ TerminateOrphan

\* the steps of _poll_loop (`while self.polling`)
PollThreadNext ==
    \/ ProcessQueuedJobs
    \/ TakeQueuedJob
    \/ GetOrCreateScaleSet
    \/ RequestPolledSpot
    \/ PolledSpotWait
    \/ RollbackScaleSet
    \/ RollbackReturn
    \/ TrackPolledRunner
    \/ CleanupCompletedRunners
    \/ PolledCleanupCheck
    \/ TerminatePolledRunner
    \/ DeletePolledScaleSet
    \/ RemovePolledRunner

\* every thread that can take a step takes one in the end: the two loops never
\* end by themselves, every provider call returns (requests and boto3 calls
\* come back with a result or an error), and the lock blocks hold no call.
\* Fairness is strong for the threads of the webhook server because the only
\* thing that holds a thread back here is another handler's pending response,
\* which the running program does not wait for. Requests and clock advances
\* are the environment's and are not forced
Fairness ==
    /\ SF_vars(CleanupThreadNext)
    /\ WF_vars(PollThreadNext)
    /\ \A t \in Handlers : SF_vars(HandlerNext(t))

\* a run that takes LiveDeliveries requests instead of MaxDeliveries
InitLive ==
    /\ program \in Programs
    /\ cfg_secret \in ServerSecrets
    /\ sig = NoSig
    /\ call = NoCall
    /\ locking = NoLocking
    /\ boot = Booted
    /\ polls = NoPolls
    /\ wait = NoWait
    /\ now = 0
    /\ ticks = 0
    /\ instances = <<>>
    /\ terms = <<>>
    /\ groups \in (IF program = "poller" THEN StartScaleSets ELSE {<<>>})
    /\ rm_runners = <<>>
    /\ jp_runners = <<>>
    /\ scale_sets = {}
    /\ pc = [t \in Threads |->
               IF program = "webhook"
               THEN (IF t \in Handlers THEN "idle"
                     ELSE IF t = CleanupThread THEN "sleep" ELSE "off")
               ELSE (IF t = PollThread THEN "sleep" ELSE "off")]
    /\ loc = [t \in Threads |-> LocIdle]
    /\ delivered = MaxDeliveries - LiveDeliveries
    /\ cycles = 0

SpecLive == InitLive /\ [][Next]_vars /\ Fairness

\* the poll thread keeps running while it can take a step: every provider
\* call of a cycle returns and time.sleep ends
SpecMainLive == SpecMain /\ WF_vars(PollThreadNext \/ PollLoopEnd)

\* ------------------------------------- start_polling and stop_polling alone
\* One JobPoller under any sequence of start_polling and stop_polling calls
\* of one caller. polls.tasks holds where each loop thread ever started
\* stands: "head" (the `while self.polling` test), "process"
\* (_process_queued_jobs), "cleanup" (_cleanup_completed_runners), "sleep"
\* (either time.sleep) or "ended"
InitPoll ==
    /\ program = "polls"
    /\ cfg_secret = [attr |-> FALSE, key |-> 0]
    /\ sig = NoSig
    /\ call = NoCall
    /\ locking = NoLocking
    /\ boot = Booted
    /\ polls = NoPolls
    /\ wait = NoWait
    /\ now = 0
    /\ ticks = 0
    /\ instances = <<>>
    /\ terms = <<>>
    /\ groups = <<>>
    /\ rm_runners = <<>>
    /\ jp_runners = <<>>
    /\ scale_sets = {}
    /\ pc = [t \in Threads |-> "off"]
    /\ loc = [t \in Threads |-> LocIdle]
    /\ delivered = 0
    /\ cycles = 0

PollFrame ==
    UNCHANGED <<program, cfg_secret, sig, call, locking, boot, wait, clockVars, awsVars,
                pollVars, rm_runners, pc, loc, delivered>>

LoopTasks == 1..Len(polls.tasks)

\* start_polling: nothing happens while the flag is set; else the flag is set
\* and a new loop thread is started and kept in poll_thread
StartPolling ==
    /\ program = "polls"
    /\ polls.caller = "idle"
    /\ polls.calls < MaxPollCalls
    /\ polls' = IF polls.polling
                THEN [polls EXCEPT !.calls = @ + 1]
                ELSE [polls EXCEPT !.calls = @ + 1,
                                   !.polling = TRUE,
                                   !.tasks = Append(@, "head"),
                                   !.poll_thread = Len(polls.tasks) + 1]
    /\ PollFrame

\* stop_polling: the flag is cleared and poll_thread, if there is one, is
\* joined
StopPolling ==
    /\ program = "polls"
    /\ polls.caller = "idle"
    /\ polls.calls < MaxPollCalls
    /\ polls' = [polls EXCEPT !.calls = @ + 1,
                              !.polling = FALSE,
                              !.caller = IF polls.poll_thread # 0 THEN "joining" ELSE "idle"]
    /\ PollFrame

\* poll_thread.join(timeout=5) returns: at once when the thread has ended,
\* else when it ends or when the five seconds are over, whichever is first
JoinReturn ==
    /\ program = "polls"
    /\ polls.caller = "joining"
    /\ polls' = [polls EXCEPT !.caller = "idle"]
    /\ PollFrame

\* `while self.polling` in loop thread i
LoopHead(i) ==
    /\ program = "polls"
    /\ polls.tasks[i] = "head"
    /\ polls' = [polls EXCEPT !.tasks[i] = IF LoopGoesOn(polls.polling)
                                           THEN "process" ELSE "ended"]
    /\ PollFrame

\* _process_queued_jobs returns (it catches what is raised in it)
LoopProcess(i) ==
    /\ program = "polls"
    /\ polls.tasks[i] = "process"
    /\ polls' = [polls EXCEPT !.tasks[i] = "cleanup"]
    /\ PollFrame

\* _cleanup_completed_runners returns or raises: time.sleep(poll_interval) or
\* time.sleep(60) comes next
LoopCleanup(i) ==
    /\ program = "polls"
    /\ polls.tasks[i] = "cleanup"
    /\ polls' = [polls EXCEPT !.tasks[i] = "sleep"]
    /\ PollFrame

\* time.sleep is over
LoopWake(i) ==
    /\ program = "polls"
    /\ polls.tasks[i] = "sleep"
    /\ polls' = [polls EXCEPT !.tasks[i] = "head"]
    /\ PollFrame

NextPoll ==
    \/ StartPolling
    \/ StopPolling
    \/ JoinReturn
    \/ \E i \in LoopTasks : LoopHead(i)
    \/ \E i \in LoopTasks : LoopProcess(i)
    \/ \E i \in LoopTasks : LoopCleanup(i)
    \/ \E i \in LoopTasks : LoopWake(i)

SpecPoll == InitPoll /\ [][NextPoll]_vars

\* --------------------------------------- _wait_for_spot_fulfillment alone
\* One call, step by step. wait.elapsed is time.time() - start_time; a poll
\* of the provider takes some time itself
CallLatencies == {0, 5}

\* the states describe_spot_instance_requests can report: "active" is active
\* with an InstanceId, "active_noid" active without one; "error" stands for a
\* ClientError of the call
RequestStates == {"open", "active", "active_noid", "failed", "cancelled", "error"}

Later(elapsed, d) == IF elapsed + d > MaxElapsed THEN MaxElapsed ELSE elapsed + d

InitWait ==
    /\ program = "wait"
    /\ cfg_secret = [attr |-> FALSE, key |-> 0]
    /\ sig = NoSig
    /\ call = NoCall
    /\ locking = NoLocking
    /\ boot = Booted
    /\ polls = NoPolls
    /\ wait = [NoWait EXCEPT !.pc = "test"]
    /\ now = 0
    /\ ticks = 0
    /\ instances = <<>>
    /\ terms = <<>>
    /\ groups = <<>>
    /\ rm_runners = <<>>
    /\ jp_runners = <<>>
    /\ scale_sets = {}
    /\ pc = [t \in Threads |-> "off"]
    /\ loc = [t \in Threads |-> LocIdle]
    /\ delivered = 0
    /\ cycles = 0

WaitFrame ==
    UNCHANGED <<program, cfg_secret, sig, call, locking, boot, polls, clockVars, awsVars,
                pollVars, rm_runners, pc, loc, delivered>>

\* a loop test that never looks at the time
WaitGoesOnForever(elapsed) == TRUE

\* `while time.time() - start_time < timeout`
WaitGoesOn(elapsed) == elapsed < WaitTimeout

\* the loop test; after the loop None is returned
WaitTest ==
    /\ wait.pc = "test"
    /\ wait' = IF WaitGoesOn(wait.elapsed)
               THEN [wait EXCEPT !.pc = "describe"]
               ELSE [wait EXCEPT !.pc = "returned", !.result = "None"]
    /\ WaitFrame

\* describe_spot_instance_requests and the tests on the state it reports
WaitDescribe ==
    /\ wait.pc = "describe"
    /\ \E state \in RequestStates, d \in CallLatencies :
         wait' = [wait EXCEPT
                    !.elapsed = Later(@, d),
                    !.state = state,
                    !.pc = IF state \in {"open", "active_noid"} THEN "sleep" ELSE "returned",
                    !.result = IF state = "active" THEN "instance"
                               ELSE IF state \in {"open", "active_noid"} THEN "none"
                               ELSE "None"]
    /\ WaitFrame

\* time.sleep(10)
WaitSleeps ==
    /\ wait.pc = "sleep"
    /\ wait' = [wait EXCEPT !.pc = "test", !.elapsed = Later(@, WaitSleep)]
    /\ WaitFrame

NextWait ==
    \/ WaitTest
    \/ WaitDescribe
    \/ WaitSleeps

\* the call goes on while it has a step to take: describe returns or raises,
\* and time.sleep ends
SpecWait == InitWait /\ [][NextWait]_vars /\ WF_vars(NextWait)

\* ------------------------------------------- runners_lock on its own
\* the routines that take runners_lock, each as the sequence of its steps in
\* program order: taking the lock (entering `with self.runners_lock`), an
\* operation on active_runners, leaving the block, a network call
Step(kind, op) == [kind |-> kind, op |-> op]
AcquireStep == Step("acquire", "runners_lock")
ReleaseStep == Step("release", "runners_lock")
TableStep(op) == Step("table", op)
NetStep(op) == Step("net", op)

\* RunnerManager.create_runner
CreateRunnerSteps ==
    << NetStep("get_runner_registration_token"), NetStep("create_spot_instance"),
       AcquireStep, TableStep("insert"), ReleaseStep >>

\* a cleanup_runner that terminates the instance inside its first lock block
CleanupRunnerStepsLocked ==
    << AcquireStep, TableStep("lookup"), NetStep("terminate_instance"), ReleaseStep,
       AcquireStep, TableStep("delete"), ReleaseStep >>

\* RunnerManager.cleanup_runner
CleanupRunnerSteps ==
    << AcquireStep, TableStep("lookup"), ReleaseStep,
       NetStep("get_runner_remove_token"), NetStep("list_runners"),
       NetStep("remove_runner"), NetStep("terminate_instance"),
       AcquireStep, TableStep("delete"), ReleaseStep >>

\* RunnerManager.handle_workflow_job_completed, with the cleanup_runner it calls
CompletedSteps == << AcquireStep, TableStep("find"), ReleaseStep >> \o CleanupRunnerSteps

\* RunnerManager._cleanup_old_runners, with a cleanup_runner it calls
OldRunnersSteps == << AcquireStep, TableStep("scan"), ReleaseStep >> \o CleanupRunnerSteps

\* RunnerManager._cleanup_orphaned_instances
OrphanedSteps ==
    << NetStep("list_runner_instances"), AcquireStep, TableStep("collect"),
       ReleaseStep, NetStep("terminate_instance") >>

\* get_status of either program
StatusSteps == << AcquireStep, TableStep("copy"), ReleaseStep >>

\* JobPoller._process_queued_jobs up to the spot request of one job:
\* get_queued_jobs, _should_create_runner_for_job, _get_or_create_scale_set,
\* get_registration_token, create_spot_instance
PolledRequestSteps ==
    << NetStep("get_queued_jobs"), AcquireStep, TableStep("scan"), ReleaseStep,
       NetStep("list_scale_sets"), NetStep("create_scale_set"),
       NetStep("get_registration_token"), NetStep("create_spot_instance") >>

\* _create_runner_for_job when the instance came: the record is inserted
PolledCreateSteps == PolledRequestSteps \o << AcquireStep, TableStep("insert"), ReleaseStep >>

\* _create_runner_for_job when no instance came: the scale set is deleted
PolledRollbackSteps == PolledRequestSteps \o << NetStep("delete_scale_set") >>

\* JobPoller._cleanup_completed_runners, with a _cleanup_runner it calls
PolledCleanupSteps ==
    << AcquireStep, TableStep("scan"), ReleaseStep,
       AcquireStep, TableStep("lookup"), ReleaseStep,
       NetStep("terminate_instance"), NetStep("delete_scale_set"),
       AcquireStep, TableStep("delete"), ReleaseStep >>

StepsOf(routine) ==
    CASE routine = "create_runner" -> CreateRunnerSteps
      [] routine = "handle_workflow_job_completed" -> CompletedSteps
      [] routine = "_cleanup_old_runners" -> OldRunnersSteps
      [] routine = "_cleanup_orphaned_instances" -> OrphanedSteps
      [] routine = "get_status" -> StatusSteps
      [] routine = "_create_runner_for_job" -> PolledCreateSteps
      [] routine = "_create_runner_for_job (rollback)" -> PolledRollbackSteps
      [] routine = "_cleanup_completed_runners" -> PolledCleanupSteps
      [] OTHER -> <<>>

\* the routines a thread runs: Flask handler threads serve notifications and
\* GET /status, the cleanup thread its two sweeps, the poll thread its cycle
RoutinesOf(t) ==
    IF t \in Handlers
    THEN (IF program = "webhook"
          THEN {"create_runner", "handle_workflow_job_completed", "get_status"}
          ELSE {"get_status"})
    ELSE IF t = CleanupThread
    THEN (IF program = "webhook"
          THEN {"_cleanup_old_runners", "_cleanup_orphaned_instances"} ELSE {})
    ELSE (IF program = "poller"
          THEN {"_create_runner_for_job", "_create_runner_for_job (rollback)",
                "_cleanup_completed_runners"}
          ELSE {})

InitLock ==
    /\ program \in Programs
    /\ cfg_secret = [attr |-> FALSE, key |-> 0]
    /\ sig = NoSig
    /\ call = NoCall
    /\ locking = NoLocking
    /\ boot = Booted
    /\ polls = NoPolls
    /\ wait = NoWait
    /\ now = 0
    /\ ticks = 0
    /\ instances = <<>>
    /\ terms = <<>>
    /\ groups = <<>>
    /\ rm_runners = <<>>
    /\ jp_runners = <<>>
    /\ scale_sets = {}
    /\ pc = [t \in Threads |-> "off"]
    /\ loc = [t \in Threads |-> LocIdle]
    /\ delivered = 0
    /\ cycles = 0

\* what a step of a thread through a routine leaves alone
LockFrame ==
    UNCHANGED <<program, cfg_secret, sig, call, boot, polls, wait, clockVars, awsVars, pollVars,
                rm_runners, pc, loc, delivered>>

\* the step thread t is at, or the end of its routine
InRoutine(t) == locking.at[t].i \in 1..Len(StepsOf(locking.at[t].routine))
CurrentStep(t) == StepsOf(locking.at[t].routine)[locking.at[t].i]
Advance(t) == [locking.at EXCEPT ![t].i = @ + 1]

\* a thread enters one of its routines
StartRoutine(t) ==
    /\ locking.at[t].routine = "none"
    /\ \E r \in RoutinesOf(t) :
         locking' = [locking EXCEPT !.at[t] = [routine |-> r, i |-> 1]]
    /\ LockFrame

\* `with self.runners_lock:` is entered: the thread waits until the lock is free
AcquireLock(t) ==
    /\ InRoutine(t) /\ CurrentStep(t).kind = "acquire"
    /\ locking.holder = "free"
    /\ locking' = [holder |-> t, at |-> Advance(t)]
    /\ LockFrame

\* an operation on active_runners
TableOperation(t) ==
    /\ InRoutine(t) /\ CurrentStep(t).kind = "table"
    /\ locking' = [locking EXCEPT !.at = Advance(t)]
    /\ LockFrame

\* the `with` block is left
ReleaseLock(t) ==
    /\ InRoutine(t) /\ CurrentStep(t).kind = "release"
    /\ locking' = [holder |-> IF locking.holder = t THEN "free" ELSE locking.holder,
                   at |-> Advance(t)]
    /\ LockFrame

\* a network call returns
NetworkCall(t) ==
    /\ InRoutine(t) /\ CurrentStep(t).kind = "net"
    /\ locking' = [locking EXCEPT !.at = Advance(t)]
    /\ LockFrame

\* a routine ends: at its last step, or before it by a return or an exception
\* (leaving a `with` block that way releases the lock)
LeaveRoutine(t) ==
    /\ locking.at[t].routine # "none"
    /\ locking' = [holder |-> IF locking.holder = t THEN "free" ELSE locking.holder,
                   at |-> [locking.at EXCEPT ![t] = [routine |-> "none", i |-> 0]]]
    /\ LockFrame

NextLock ==
    \/ \E t \in Threads : StartRoutine(t)
    \/ \E t \in Threads : AcquireLock(t)
    \/ \E t \in Threads : TableOperation(t)
    \/ \E t \in Threads : ReleaseLock(t)
    \/ \E t \in Threads : NetworkCall(t)
    \/ \E t \in Threads : LeaveRoutine(t)

SpecLock == InitLock /\ [][NextLock]_vars

\* ------------------------------------------- _verify_signature on its own
\* raw request bodies
SigBodies == 1..MaxSigBodies

\* the digest of a signed header in upper case
UpperCased(text) ==
    [i \in 1..Len(text) |->
        IF \E d \in 1..16 : HexLower[d] = text[i]
        THEN HexUpper[CHOOSE d \in 1..16 : HexLower[d] = text[i]]
        ELSE text[i]]

\* X-Hub-Signature-256 values: none, empty, the signature of every body under
\* every key, and for one signature: another algorithm prefix, no prefix, the
\* digest in upper case, a digit more
SigHeaders ==
    {NoHeader, Header(<<>>)}
    \cup {SignedHeader(k, b) : k \in SecretKeys, b \in SigBodies}
    \cup {Header(<<"sha1", Eq>> \o HexDigest(Hmac(1, 1))),
          Header(HexDigest(Hmac(1, 1))),
          Header(UpperCased(SignedHeader(1, 1).text)),
          Header(SignedHeader(1, 1).text \o <<"0">>)}

InitSig ==
    /\ program = "verify"
    /\ cfg_secret \in SecretConfigs
    /\ \E b \in SigBodies, h \in SigHeaders :
         sig = [secret |-> cfg_secret, body |-> b, header |-> h,
                verdict |-> "", step |-> "called"]
    /\ call = NoCall
    /\ locking = NoLocking
    /\ boot = Booted
    /\ polls = NoPolls
    /\ wait = NoWait
    /\ now = 0
    /\ ticks = 0
    /\ instances = <<>>
    /\ terms = <<>>
    /\ groups = <<>>
    /\ rm_runners = <<>>
    /\ jp_runners = <<>>
    /\ scale_sets = {}
    /\ pc = [t \in Threads |-> "off"]
    /\ loc = [t \in Threads |-> LocIdle]
    /\ delivered = 0
    /\ cycles = 0

\* _verify_signature returns (or raises)
VerifyRequest ==
    /\ sig.step = "called"
    /\ sig' = [sig EXCEPT !.verdict = VerifySignature(sig.secret, sig.body, sig.header),
                          !.step = "returned"]
    /\ UNCHANGED <<program, cfg_secret, call, locking, boot, polls, wait, clockVars, awsVars, pollVars, rm_runners, pc,
                   loc, delivered>>

NextSig == VerifyRequest

SpecSig == InitSig /\ [][NextSig]_vars

\* ------------------------------------------- the label parsers on their own
\* the cpu counts _cpu_to_instance_type is called with: every integer from
\* below the first tier to above the last, and one far above
CpuCounts == (-2..MaxCpuCount) \cup {1000}

\* the labels the parsers are called with: every key they know with a value,
\* a cpu label with a non-numeric and with an empty value, a value holding a
\* second "=", an unknown key, a label without "=", an item that is no string
ParseLabels ==
    { Label(TRUE, <<"runs-on", Eq, "42">>),
      Label(TRUE, <<"instanceType", Eq, "c5.large">>),
      Label(TRUE, <<"instanceType", Eq, "c5", Eq, "large">>),
      Label(TRUE, <<"family", Eq, "r5.large">>),
      Label(TRUE, <<"cpu", Eq, "4">>),
      Label(TRUE, <<"cpu", Eq, "5">>),
      Label(TRUE, <<"cpu", Eq, "1000">>),
      Label(TRUE, <<"cpu", Eq, "abc">>),
      Label(TRUE, <<"cpu", Eq>>),
      Label(TRUE, <<"image", Eq, "ami-x">>),
      Label(TRUE, <<"image", Eq, "ami-y">>),
      Label(TRUE, <<"maxPrice", Eq, "0.50">>),
      Label(TRUE, <<"labels", Eq, "gpu", Comma, "fast">>),
      Label(TRUE, <<"memory", Eq, "16">>),
      Label(TRUE, <<"workFolder", Eq, "/w">>),
      Label(TRUE, <<"colour", Eq, "red">>),
      Label(TRUE, <<"linux">>),
      Label(FALSE, <<"cpu", Eq, "4">>) }

RECURSIVE LabelListsOf(_)
LabelListsOf(n) ==
    IF n = 0 THEN {<<>>}
    ELSE LET shorter == LabelListsOf(n - 1)
         IN  shorter \cup {Append(ls, l) : ls \in {x \in shorter : Len(x) = n - 1},
                                           l \in ParseLabels}

\* the label lists of a job: every list of up to MaxLabels labels
LabelLists == LabelListsOf(MaxLabels)

ParseFunctions == {"parse_runs_on_config", "_parse_runner_config"}

InitParse ==
    /\ program = "parse"
    /\ cfg_secret = [attr |-> FALSE, key |-> 0]
    /\ sig = NoSig
    /\ locking = NoLocking
    /\ boot = Booted
    /\ polls = NoPolls
    /\ wait = NoWait
    /\ \/ \E n \in CpuCounts :
            call = [NoCall EXCEPT !.fn = "_cpu_to_instance_type", !.cpu_count = n,
                                  !.step = "called"]
       \/ \E f \in ParseFunctions, ls \in LabelLists :
            call = [NoCall EXCEPT !.fn = f, !.labels = ls, !.step = "called"]
    /\ now = 0
    /\ ticks = 0
    /\ instances = <<>>
    /\ terms = <<>>
    /\ groups = <<>>
    /\ rm_runners = <<>>
    /\ jp_runners = <<>>
    /\ scale_sets = {}
    /\ pc = [t \in Threads |-> "off"]
    /\ loc = [t \in Threads |-> LocIdle]
    /\ delivered = 0
    /\ cycles = 0

\* what a call of a label-parsing function leaves alone
ParseFrame ==
    UNCHANGED <<program, cfg_secret, sig, locking, boot, polls, wait, clockVars, awsVars, pollVars,
                rm_runners, pc, loc, delivered>>

\* _cpu_to_instance_type returns
CallCpuToInstanceType ==
    /\ call.fn = "_cpu_to_instance_type" /\ call.step = "called"
    /\ call' = [call EXCEPT !.type = CpuToInstanceType(call.cpu_count),
                            !.step = "returned"]
    /\ ParseFrame

\* parse_runs_on_config returns its dict, or raises
CallParseRunsOnConfig ==
    /\ call.fn = "parse_runs_on_config" /\ call.step = "called"
    /\ call' = [call EXCEPT !.config = ParseRunsOnConfig(call.labels),
                            !.step = "returned"]
    /\ ParseFrame

\* _parse_runner_config returns its dict, or raises
CallParseRunnerConfig ==
    /\ call.fn = "_parse_runner_config" /\ call.step = "called"
    /\ call' = [call EXCEPT !.config = ParseRunnerConfig(call.labels),
                            !.step = "returned"]
    /\ ParseFrame

NextParse ==
    \/ CallCpuToInstanceType
    \/ CallParseRunsOnConfig
    \/ CallParseRunnerConfig

SpecParse == InitParse /\ [][NextParse]_vars

\* ============================================================ properties
\* records of the notification path's registry made for job id j
RecordsOfJob(j) == {i \in 1..Len(rm_runners) : rm_runners[i].name.job = j}

\* handler threads whose instance request for job id j has been issued and
\* whose record is not inserted yet
Requesting(j) == {t \in Handlers : pc[t] \in {"spot_wait", "track"} /\ loc[t].job = j}

\* C1: repeated delivery of the queued notification of a job never leaves two
\* records of that job in the notification path's registry, and no instance
\* request is issued for a job while a record of it is tracked
C1_QueuedIsIdempotent ==
    [][\A j \in JobIds :
         /\ Cardinality(RecordsOfJob(j))' <= 1
         /\ \A t \in Handlers :
              (pc[t] = "create_runner" /\ pc'[t] = "spot_wait" /\ loc[t].job = j)
              => RecordsOfJob(j) = {}]_vars

\* C2: of the handlers that run for one job id at the same time only one goes
\* on to request an instance, so that requests in flight and records of one job
\* never number more than one
C2_OneClaimantPerJob ==
    \A j \in JobIds : Cardinality(Requesting(j)) + Cardinality(RecordsOfJob(j)) <= 1

\* C3: when the age sweep cleans a record up, the sweep and the handlers of
\* completed notifications together call terminate for its instance once
C3_NoDoubleTermination ==
    \A iid \in 1..Len(instances) :
        terms[iid]["ct"] >= 1
        => terms[iid]["ct"] + terms[iid]["h1"] + terms[iid]["h2"] = 1

\* C4: a completed or cancelled notification for a job with a tracked record,
\* handled while no other cleanup runs, ends with that record removed and one
\* terminate call issued for its instance
C4_CompletedCleansItsRecord ==
    \A t \in Handlers :
        (/\ pc[t] = "done"
         /\ loc[t].action \in {"completed", "cancelled"}
         /\ loc[t].owned # NoTracked
         /\ loc[t].alone)
        => /\ IndexOfName(rm_runners, loc[t].owned.name) = 0
           /\ terms[loc[t].owned.instance_id][t] = 1

\* C5: the cleanup a completed or cancelled notification for job id J starts
\* is that of a record made for job id J
C5_CleanupOnlyExactJob ==
    \A t \in Handlers :
        pc[t] \in CleanupPcs => loc[t].cur.job = loc[t].job

\* C9: a request whose signature check does not return True is answered
\* without its body being parsed, and the step changes no registry, no
\* provider state and starts no work
C9_RejectedBeforeParsing ==
    [][\A t \in Handlers :
         (pc[t] = "idle" /\ pc'[t] # "idle" /\ loc'[t].verdict # "true")
         => /\ pc'[t] = "done"
            /\ ~loc'[t].parsed
            /\ loc'[t].resp \in {401, 500}
            /\ UNCHANGED <<rm_runners, jp_runners, scale_sets, groups, instances,
                           terms>>]_vars

\* a request with a wrong signature has been answered 401 on a server that
\* tracks a runner
C9_Witness ==
    \E t \in Handlers :
        /\ pc[t] = "done"
        /\ loc[t].verdict = "false"
        /\ loc[t].resp = 401
        /\ cfg_secret.key = 1
        /\ rm_runners # <<>>

\* the step inserts one record at the end of a registry: it has the status a
\* new record gets, the image of an image=ami-x label and the class of a cpu=4
\* label
InsertsRecord(old, new, labels, status) ==
    /\ Len(new) = Len(old) + 1
    /\ LET r == new[Len(new)]
       IN  /\ r.status = status
           /\ (\E i \in 1..Len(labels) : labels[i].text = <<"image", Eq, "ami-x">>)
              => r.config.ami_id = <<"ami-x">>
           /\ (\E i \in 1..Len(labels) : labels[i].text = <<"cpu", Eq, "4">>)
              => r.config.instance_type = <<"t3.xlarge">>

\* every step that ends a successful provisioning inserts a record of the
\* given status with the launch configuration of the job's labels
InsertsWithStatus(status) ==
    /\ \A t \in Handlers :
         (pc[t] = "track" /\ pc'[t] # "track")
         => InsertsRecord(rm_runners, rm_runners', loc[t].labels, status)
    /\ (pc[PollThread] = "track" /\ pc'[PollThread] # "track")
       => InsertsRecord(jp_runners, jp_runners', loc[PollThread].labels, status)

\* C6 as the spec states it: whenever provisioning for a job succeeds, the
\* record inserted has status Active and the launch configuration resolved
\* from the job's labels (image of image=, class of cpu=)
C6_InsertedActive == [][InsertsWithStatus("Active")]_vars

\* C6: whenever provisioning for a job succeeds, the record inserted has
\* status starting and the launch configuration resolved from the job's labels
\* (image of image=, class of cpu=)
C6_InsertedStarting == [][InsertsWithStatus("starting")]_vars

\* a record of job 42 is tracked with status starting, image ami-x and the
\* class of cpu=4
C6_Witness ==
    \E i \in 1..Len(rm_runners) :
        /\ rm_runners[i].name.job = 42
        /\ rm_runners[i].status = "starting"
        /\ rm_runners[i].config.ami_id = <<"ami-x">>
        /\ rm_runners[i].config.instance_type = <<"t3.xlarge">>

InstanceIdsOf(runners) == {runners[i].instance_id : i \in 1..Len(runners)}

\* C8: every record of either registry holds the id of an instance that the
\* provider launched for a fulfilled request, and no two records hold the same
\* instance
C8_RecordsReferenceInstances ==
    /\ InstanceIdsOf(rm_runners) \cup InstanceIdsOf(jp_runners) \subseteq 1..Len(instances)
    /\ Cardinality(InstanceIdsOf(rm_runners)) = Len(rm_runners)
    /\ Cardinality(InstanceIdsOf(jp_runners)) = Len(jp_runners)

\* the poller tracks a runner after an earlier provisioning of the same cycle
\* failed and was rolled back
C8_Witness ==
    /\ jp_runners # <<>>
    /\ \E g \in 1..Len(groups) : groups[g].deletes >= 1
    /\ pc[PollThread] = "jobs"

\* C10: for a secret S chosen for the deployment and a raw body B,
\* _verify_signature accepts a header exactly when the header is "sha256="
\* followed by the hex HMAC of B under S
C10_AcceptsExactlyTheHmacHeader ==
    (sig.step = "returned" /\ sig.secret.key # 0)
    => (sig.verdict = "true" <=> sig.header = SignedHeader(sig.secret.key, sig.body))

\* C11: every request whose signature check does not return True is answered
\* with status 401
C11_SignatureFailureIs401 ==
    \A t \in Handlers :
        (pc[t] = "done" /\ loc[t].verdict # "true") => loc[t].resp = 401

\* C12: an authenticated, parsable queued workflow_job notification is
\* answered 200 whatever handle_workflow_job_queued returned
C12_QueuedAlwaysAnswered200 ==
    \A t \in Handlers :
        /\ (pc[t] = "done" /\ loc[t].verdict = "true" /\ loc[t].action = "queued")
              => loc[t].resp = 200
        /\ (pc[t] = "done" /\ loc[t].outcome # "")
              => loc[t].verdict = "true" /\ loc[t].action = "queued"

\* a provisioning failure (create_runner returned False) answered 200
C12_Witness ==
    \E t \in Handlers :
        /\ pc[t] = "done" /\ loc[t].outcome = "failed" /\ loc[t].resp = 200
        /\ \A i \in 1..Len(rm_runners) : rm_runners[i].name.job # loc[t].job

\* the labels hold one of the form runs-on=<value>: a string label whose key,
\* the text before its first "=", is runs-on
HasRunsOnKey(labels) ==
    \E i \in 1..Len(labels) :
        /\ labels[i].str /\ HasEq(labels[i].text)
        /\ SplitOnceKey(labels[i].text) = <<"runs-on">>

\* the positions of a thread between the decision to provision for a job and
\* the insertion of its record
ProvisioningPcs ==
    {"create_runner", "scale_set", "spot_request", "spot_wait", "rollback", "track"}

\* C13: nothing is provisioned (no credential, no instance, no record) for a
\* job none of whose labels has the key runs-on, in the notification path and
\* in the polling path
C13_NoRunsOnKeyNotProvisioned ==
    \A t \in Threads :
        pc[t] \in ProvisioningPcs => HasRunsOnKey(loc[t].labels)

\* the tiers of the capacity table whose capacity is at least n
FittingTiers(n) == {i \in 1..Len(CpuMap) : CpuMap[i].cpu >= n}

\* the class the capacity table gives n: of the fitting tiers the one of least
\* capacity, and the tier of greatest capacity when none fits
ExpectedClass(n) ==
    LET among == IF FittingTiers(n) = {} THEN 1..Len(CpuMap) ELSE FittingTiers(n)
        best == CHOOSE i \in among :
                   \A j \in among :
                       IF FittingTiers(n) = {} THEN CpuMap[i].cpu >= CpuMap[j].cpu
                       ELSE CpuMap[i].cpu <= CpuMap[j].cpu
    IN  CpuMap[best].type

\* the label is the string cpu=<integer>
IsCpuLabel(label) ==
    /\ label.str /\ HasEq(label.text)
    /\ SplitOnceKey(label.text) = <<"cpu">>
    /\ ~IntRaises(SplitOnceValue(label.text))

\* C14: a cpu count resolves to the smallest class of the capacity table whose
\* capacity is at least the count, and to the largest class when the count
\* exceeds every tier; a single cpu=n label resolves to that class in both
\* parsers
C14_CpuResolvesToSmallestFit ==
    /\ (call.fn = "_cpu_to_instance_type" /\ call.step = "returned")
         => call.type = ExpectedClass(call.cpu_count)
    /\ (/\ call.fn \in ParseFunctions /\ call.step = "returned"
        /\ Len(call.labels) = 1 /\ IsCpuLabel(call.labels[1]))
         => /\ ~call.config.raised
            /\ call.config.instance_type =
                 ExpectedClass(IntOf(SplitOnceValue(call.labels[1].text)[1]))

\* cpu=5 has given the 8-cpu class
C14_Witness ==
    /\ call.fn \in ParseFunctions /\ call.step = "returned"
    /\ call.labels = << Label(TRUE, <<"cpu", Eq, "5">>) >>
    /\ call.config.instance_type = <<"t3.2xlarge">>

\* the key of a string label of the form key=value, <<>> for any other item
KeyOf(label) ==
    IF label.str /\ HasEq(label.text) THEN SplitOnceKey(label.text) ELSE <<>>

\* the positions of the labels with one of the keys
LabelsWithKey(labels, keys) == {i \in 1..Len(labels) : KeyOf(labels[i]) \in keys}

MaxOf(S) == CHOOSE x \in S : \A y \in S : y <= x

\* the class a class-setting label names: the value, or the class of the count
ClassOf(label) ==
    LET value == SplitOnceValue(label.text)
    IN  IF KeyOf(label) = <<"cpu">> THEN ExpectedClass(IntOf(value[1])) ELSE value

ClassKeys == {<<"instanceType">>, <<"family">>, <<"cpu">>}

\* C15: in a parse that returns, the last of the labels instanceType=, family=
\* and cpu= gives the instance class, and the last image= label gives the image
C15_LastLabelWins ==
    (call.fn \in ParseFunctions /\ call.step = "returned" /\ ~call.config.raised) =>
        LET setters == LabelsWithKey(call.labels, ClassKeys)
            images == LabelsWithKey(call.labels, {<<"image">>})
        IN  /\ setters # {} =>
                 call.config.instance_type = ClassOf(call.labels[MaxOf(setters)])
            /\ images # {} =>
                 call.config.ami_id = SplitOnceValue(call.labels[MaxOf(images)].text)

\* C16: both parsers return, for every label list, a configuration with
\* instance class, image, price ceiling and labels set, and never raise
C16_ParserIsTotal ==
    (call.fn \in ParseFunctions /\ call.step = "returned") =>
        /\ ~call.config.raised
        /\ call.config.instance_type # Absent /\ call.config.ami_id # Absent
        /\ call.config.max_price # Absent /\ call.config.labels # <<>>

\* a step that is one POST /cleanup request, from its start to its response
ManualCleanupStep == delivered' # delivered /\ pc' = pc

\* the registry of the program that runs
Registry == IF program = "poller" THEN jp_runners ELSE rm_runners

\* C17: when a POST /cleanup request has completed, every record tracked at
\* its start is out of the registry and a termination call was made for its
\* instance during the request
C17_ManualCleanupEmptiesRegistry ==
    [][ManualCleanupStep =>
         \A i \in 1..Len(Registry) :
             /\ \A j \in 1..Len(Registry') : Registry'[j].name # Registry[i].name
             /\ terms'[Registry[i].instance_id] # terms[Registry[i].instance_id]]_vars

\* the runner names a run can make
RunnerNames == {RunnerName(j, u) : j \in JobIds, u \in 1..MaxDeliveries}

\* a record of that name is tracked and older than the idle timeout
TrackedAndOld(name) ==
    \E i \in 1..Len(Registry) :
        Registry[i].name = name /\ now - Registry[i].created_at > IdleTimeout

IsTracked(name) == \E i \in 1..Len(Registry) : Registry[i].name = name

\* a sweep is still to come: the cleanup thread sweeps for ever; the poll
\* thread sweeps at the end of every cycle it runs
SweepAhead ==
    \/ program = "webhook"
    \/ pc[PollThread] \in ProvisioningPcs \cup {"jobs", "rolled_back", "scan"}
    \/ pc[PollThread] = "sleep" /\ cycles < MaxCycles

C20_NoNetworkCallUnderLock ==
    \A t \in Threads :
        (InRoutine(t) /\ CurrentStep(t).kind = "net") => locking.holder # t

\* a network call of the cleanup protocol is in progress in one thread while
\* another thread holds the lock
C20_Witness ==
    \E t, u \in Threads :
        /\ t # u /\ locking.holder = u
        /\ InRoutine(t) /\ CurrentStep(t) = NetStep("terminate_instance")

\* C21: in a run whose token or organization is missing, main() never gets
\* past its validation: the poll thread is never started, no cycle runs, no
\* request is served and no provider is called
C21_NoServiceWithoutSettings ==
    (~boot.token \/ ~boot.org) =>
        /\ boot.main \in {"start", "exited"}
        /\ pc[PollThread] = "off" /\ cycles = 0 /\ delivered = 0
        /\ instances = <<>> /\ jp_runners = <<>> /\ scale_sets = {}

\* the process has exited for a missing token
C21_Witness == boot.main = "exited" /\ ~boot.token /\ boot.org

\* C22: in the polling path, when the scale set was created for the job and
\* the registration token is then not obtained, the delete call for that scale
\* set is made before _create_runner_for_job returns
C22_TokenFailureDeletesNewGroup ==
    [][(/\ pc[PollThread] = "spot_request" /\ pc'[PollThread] = "jobs"
        /\ loc[PollThread].made)
       => groups'[loc[PollThread].gid].deletes >= 1]_vars

\* C23: the rollback after a failed instance creation leaves a scale set alone
\* that this attempt did not create (one found by listing and reused)
C23_RollbackSparesReusedGroup ==
    [][(/\ pc[PollThread] = "rollback" /\ pc'[PollThread] = "rolled_back"
        /\ ~loc[PollThread].made)
       => groups' = groups]_vars

\* C24: the cleanup protocol leaves the scale set of its record alone while
\* another tracked record holds the same scale set id
C24_SharedGroupNotDeleted ==
    [][(/\ pc[PollThread] = "pcl_group" /\ pc'[PollThread] = "pcl_remove"
        /\ \E k \in 1..Len(jp_runners) :
             /\ jp_runners[k].name # loc[PollThread].cur
             /\ jp_runners[k].scale_set_id = loc[PollThread].cur_gid)
       => groups' = groups]_vars

\* C25: while the poll thread is between cycles (nothing is being provisioned
\* or cleaned up), every entry of the scale-set cache is the scale set of a
\* tracked record
C25_CacheEntriesAreReferenced ==
    pc[PollThread] = "sleep" =>
        \A e \in scale_sets :
            \E k \in 1..Len(jp_runners) :
                /\ jp_runners[k].scale_set_name = e.name
                /\ jp_runners[k].scale_set_id = e.id

\* the job has a tracked record in the poller's registry
HasPolledRecord(job_id) == \E k \in 1..Len(jp_runners) : jp_runners[k].job_id = job_id

\* C26: a failed provisioning attempt leaves nothing that blocks its job. In
\* the polling path an attempt that ends without a record leaves the registry
\* as it was, and a queued job is passed over only for a tracked record of its
\* job id or for its labels; in the notification path a queued notification is
\* turned down only for its payload, whatever happened before
C26_FailureLeavesJobRetryable ==
    [][/\ (/\ pc[PollThread] \in {"scale_set", "spot_request", "rolled_back"}
           /\ pc'[PollThread] = "jobs")
          => jp_runners' = jp_runners
       /\ (/\ pc[PollThread] = "jobs" /\ loc[PollThread].jobs # <<>>
           /\ pc'[PollThread] = "jobs" /\ loc'[PollThread] # loc[PollThread])
          => LET job == Head(loc[PollThread].jobs)
             IN  \/ HasPolledRecord(job.job_id)
                 \/ ~WantsOurRunner(job.labels)
                 \/ ParseRunnerConfig(job.labels).raised
       /\ \A t \in Handlers :
            (/\ pc[t] = "idle" /\ pc'[t] # "idle"
             /\ loc'[t].verdict = "true" /\ loc'[t].event = "workflow_job"
             /\ loc'[t].action = "queued"
             /\ loc'[t].outcome \notin {"not_needed", "rejected"})
            => pc'[t] = "create_runner"]_vars

\* job 4 is being provisioned for again after an attempt that failed: a scale
\* set name of an earlier attempt for job 4 is cached, and no instance was
\* ever created
C26_Witness ==
    /\ pc[PollThread] = "scale_set" /\ loc[PollThread].job = 4
    /\ instances = <<>>
    /\ \E e \in scale_sets : e.name.job = 4 /\ e.name # loc[PollThread].gname

\* C27: in the polling path no two tracked records have the same job id, and
\* nothing is provisioned for a job while a record of its job id is tracked
C27_OneRecordPerPolledJob ==
    /\ \A k, m \in 1..Len(jp_runners) :
         k # m => jp_runners[k].job_id # jp_runners[m].job_id
    /\ pc[PollThread] \in ProvisioningPcs => ~HasPolledRecord(loc[PollThread].job)

\* a later cycle has reported job 4 again and passed it over: its record is
\* tracked and one instance was requested in all
C27_Witness ==
    /\ loc[PollThread].passed = 4 /\ HasPolledRecord(4)
    /\ Len(instances) = 1

\* the positions of the poll thread inside _create_runner_for_job
AttemptPcs ==
    {"scale_set", "spot_request", "spot_wait", "rollback", "rolled_back", "track"}

\* C28: within one poll cycle the attempt for one job, however it ends (no
\* group, no credential, no instance, a raised ValueError), gives the loop back
\* with the jobs of the same fetch that are still to come, and every job the
\* loop takes that is eligible is provisioned for
C28_FailureDoesNotStopCycle ==
    [][LET l == loc[PollThread]
       IN  /\ pc[PollThread] \in AttemptPcs
              => /\ pc'[PollThread] \in AttemptPcs \cup {"jobs"}
                 /\ loc'[PollThread].jobs = l.jobs
           /\ (pc[PollThread] = "jobs" /\ l.jobs # <<>> /\ loc'[PollThread] # l)
              => /\ loc'[PollThread].jobs = Tail(l.jobs)
                 /\ \/ pc'[PollThread] = "scale_set"
                       /\ loc'[PollThread].job = Head(l.jobs).job_id
                    \/ /\ pc'[PollThread] = "jobs"
                       /\ \/ HasPolledRecord(Head(l.jobs).job_id)
                          \/ ~WantsOurRunner(Head(l.jobs).labels)
                          \/ ParseRunnerConfig(Head(l.jobs).labels).raised
           /\ (pc[PollThread] = "jobs" /\ pc'[PollThread] = "scan") => l.jobs = <<>>]_vars

\* the attempt for job 42 failed after its cache entry was written (no record,
\* no instance), and the same cycle is now provisioning for job 4
C28_Witness ==
    /\ pc[PollThread] = "spot_request" /\ loc[PollThread].job = 4
    /\ \E e \in scale_sets : e.name.job = 42
    /\ ~HasPolledRecord(42) /\ instances = <<>>

\* C29: an authenticated completed or cancelled notification for a job no
\* tracked record was made for is answered 200 at once, with the registry as
\* it was and no cleanup started; and cleanup_runner on a name that is not in
\* the registry returns with the registry, the instances and the terminate
\* calls as they were
C29_UnknownJobTouchesNothing ==
    [][\A t \in Handlers :
         /\ (/\ pc[t] = "idle" /\ pc'[t] # "idle"
             /\ loc'[t].verdict = "true"
             /\ loc'[t].action \in {"completed", "cancelled"}
             /\ loc'[t].owned = NoTracked)
            => /\ pc'[t] = "done" /\ loc'[t].resp = 200
               /\ rm_runners' = rm_runners /\ terms' = terms
         /\ (/\ pc[t] = "cl_check" /\ pc'[t] # pc[t]
             /\ IndexOfName(rm_runners, loc[t].cur) = 0)
            => /\ pc'[t] = "done" /\ loc'[t].resp = 200
               /\ rm_runners' = rm_runners /\ terms' = terms
               /\ instances' = instances]_vars

\* C30: an authenticated notification with a JSON payload whose event type is
\* not workflow_job, or whose action is not queued, completed or cancelled, is
\* answered 200 at once: no record, instance, terminate call or scale set
\* changes and the handler starts no provisioning and no cleanup
C30_OtherEventsOnlyAcknowledged ==
    [][\A t \in Handlers :
         (/\ pc[t] = "idle" /\ pc'[t] # "idle"
          /\ loc'[t].verdict = "true" /\ loc'[t].action # ""
          /\ \/ loc'[t].event # "workflow_job"
             \/ loc'[t].action \notin {"queued", "completed", "cancelled"})
         => /\ pc'[t] = "done" /\ loc'[t].resp = 200
            /\ rm_runners' = rm_runners /\ instances' = instances
            /\ terms' = terms /\ groups' = groups]_vars

\* an in_progress notification for job 4 is answered 200 while the record of
\* job 4 is tracked
C30_Witness ==
    \E t \in Handlers :
        /\ pc[t] = "done" /\ loc[t].verdict = "true" /\ loc[t].resp = 200
        /\ loc[t].event = "workflow_job" /\ loc[t].action = "in_progress"
        /\ \E i \in 1..Len(rm_runners) : rm_runners[i].name.job = loc[t].job

\* main() has called stop_polling
StopRequested == boot.main \in {"joining", "stopped"}

LiveLoopTasks == {i \in LoopTasks : polls.tasks[i] # "ended"}

\* C32: whatever start_polling and stop_polling calls were made, at most one
\* loop thread has not ended once the calls have returned
C32_OneLoopTask ==
    polls.caller = "idle" => Cardinality(LiveLoopTasks) <= 1

\* the instance ids the registry of the webhook server references
TrackedInstances == {rm_runners[i].instance_id : i \in 1..Len(rm_runners)}

SweepPcs == {"orph_list", "orph_cmp", "orph_term"}

\* C33: the instances the orphan sweep chooses are referenced by no tracked
\* record when it compares them and were launched more than the orphan
\* threshold ago; only chosen instances get a terminate call of the sweep, and
\* no step of the sweep changes the registry
C33_SweepSparesTrackedAndYoung ==
    [][/\ (pc[CleanupThread] = "orph_cmp" /\ pc'[CleanupThread] = "orph_term")
          => \A k \in 1..Len(loc'[CleanupThread].victims) :
               LET iid == loc'[CleanupThread].victims[k]
               IN  /\ iid \notin TrackedInstances
                   /\ instances[iid].launch < now - OrphanThreshold
       /\ \A iid \in 1..Len(instances) :
            (iid <= Len(terms) /\ terms'[iid]["orphan"] # terms[iid]["orphan"])
            => /\ pc[CleanupThread] = "orph_term"
               /\ iid = Head(loc[CleanupThread].victims)
               /\ instances[iid].launch < now - OrphanThreshold
       /\ (pc[CleanupThread] \in SweepPcs /\ loc'[CleanupThread] # loc[CleanupThread])
          => rm_runners' = rm_runners]_vars

\* the sweep has called terminate for one instance while another instance,
\* listed with it, is referenced by a tracked record and got no call of the
\* sweep
C33_Witness ==
    \E i, k \in 1..Len(instances) :
        /\ terms[i]["orphan"] >= 1
        /\ k \in TrackedInstances /\ terms[k]["orphan"] = 0
        /\ instances[k].tagged /\ instances[k].launch <= instances[i].launch

\* C34: an orphan sweep that has listed the instances goes on to a terminate
\* call for every listed instance that no tracked record references and that
\* was launched more than the orphan threshold ago
C34_SweepTerminatesEveryOrphan ==
    [][(pc[CleanupThread] = "orph_cmp" /\ pc'[CleanupThread] # "orph_cmp")
       => loc'[CleanupThread].victims
            = OrphansOf(loc[CleanupThread].listed, TrackedInstances, now - OrphanThreshold)]_vars

\* the records of a registry that its next value no longer holds
Removed(before, after) ==
    {before[i] : i \in 1..Len(before)} \ {after[i] : i \in 1..Len(after)}

\* a terminate call for instance iid was issued by a cleanup (of a handler,
\* the cleanup thread or the poll thread)
TerminateIssued(iid) == \E t \in Threads : terms[iid][t] >= 1

\* C35: whenever a record leaves a registry, a cleanup has issued the
\* terminate call for the record's instance before; so a cleanup that ends
\* before that call leaves the record tracked
C35_RemovedOnlyAfterTerminate ==
    [][/\ \A r \in Removed(rm_runners, rm_runners') : TerminateIssued(r.instance_id)
       /\ \A r \in Removed(jp_runners, jp_runners') : TerminateIssued(r.instance_id)]_vars

\* a completed notification has been handled: the record made for its job is
\* gone and the handler had called terminate for the record's instance
C35_Witness ==
    \E t \in Handlers :
        /\ pc[t] = "done" /\ loc[t].owned # NoTracked
        /\ \A i \in 1..Len(rm_runners) : rm_runners[i].name # loc[t].owned.name
        /\ terms[loc[t].owned.instance_id][t] = 1

\* C36: the wait for fulfilment ends. It returns the instance when the request
\* is active with an instance, returns None at once on a failed or cancelled
\* request and on a provider error, and otherwise returns None only when the
\* timeout has passed
C36_WaitAlwaysEnds ==
    /\ <>(wait.pc = "returned")
    /\ [](wait.pc = "returned" =>
            /\ wait.result = "instance" <=> wait.state = "active"
            /\ wait.result # "instance" => wait.result = "None"
            /\ wait.state \notin {"active", "failed", "cancelled", "error"}
                  => wait.elapsed >= WaitTimeout)
    /\ [][(wait.pc = "describe" /\ wait'.state \in {"active", "failed", "cancelled", "error"})
          => wait'.pc = "returned"]_vars

\* the request stayed open until the timeout had passed: the wait returned None
C36_Witness ==
    /\ wait.pc = "returned" /\ wait.result = "None"
    /\ wait.state = "open" /\ wait.elapsed >= WaitTimeout

\* what the other label parser returns for the labels of the call
OtherParser(fn, labels) ==
    IF fn = "parse_runs_on_config" THEN ParseRunnerConfig(labels) ELSE ParseRunsOnConfig(labels)

\* C37: a label list is resolved by either parser to what the other parser
\* resolves it to (instance class, image, price ceiling, worker labels, and a
\* raise in one is a raise in the other), and a workFolder= label sets the
\* work folder of the configuration in both
C37_ParsersAgree ==
    (call.fn \in ParseFunctions /\ call.step = "returned") =>
        LET other == OtherParser(call.fn, call.labels)
            folders == LabelsWithKey(call.labels, {<<"workFolder">>})
        IN  /\ call.config.raised = other.raised
            /\ ~call.config.raised =>
                 /\ call.config.instance_type = other.instance_type
                 /\ call.config.ami_id = other.ami_id
                 /\ call.config.max_price = other.max_price
                 /\ call.config.labels = other.labels
                 /\ folders # {} =>
                      call.config.work_folder
                        = SplitOnceValue(call.labels[MaxOf(folders)].text)

\* instance iid is referenced by a tracked record of the program that runs
IsReferenced(iid) == \E k \in 1..Len(Registry) : Registry[k].instance_id = iid

\* C38: every instance the provider launches for a request of the controller
\* is, from some time on after its launch, referenced by a tracked record or
\* terminated
C38_LaunchedIsTrackedOrTerminated ==
    \A iid \in 1..MaxDeliveries :
        (iid <= Len(instances))
            ~> \/ IsReferenced(iid)
               \/ iid <= Len(instances) /\ instances[iid].state = "terminated"

\* C39: a registry never holds more records than max_runners
C39_AtMostMaxRunners ==
    /\ Len(rm_runners) <= max_runners
    /\ Len(jp_runners) <= max_runners

\* the threads that provision
Provisioners == Handlers \cup {PollThread}

====
